---- MODULE Spec2Model ----
(***************************************************************************)
(* A model of the lineforge session runtime.                               *)
(*                                                                         *)
(*   Spec     the life cycle of one session: SessionManager::spawn, stop,  *)
(*            send_input, get, list, the resize endpoint, the PTY          *)
(*            supervisor (run_pty_io: writer, reader, reaper) and the      *)
(*            bind step of run_attach_listener.                            *)
(*   SpecLog  the session log (ring + broadcast) with the PTY reader as    *)
(*            producer and one attach connection and one SSE stream as     *)
(*            observers.                                                   *)
(*                                                                         *)
(* Sessions share nothing but the registry map, so one session (Sid) is    *)
(* modelled next to an identifier that is never registered (UnknownId).    *)
(***************************************************************************)
EXTENDS Integers, Sequences, FiniteSets, TLC

VARIABLES
    \* ---- session runtime (manager.rs) ----
    sessions,      \* keys of SessionManager.sessions
    meta,          \* LiveSession.meta of Sid
    metaFile,      \* contents of sessions/<id>/meta.json ("none" or a meta)
    sockFile,      \* /tmp/lineforge/<id>.sock exists
    now,           \* the latest reading of chrono::Utc::now()
    yolo_mode,     \* Config.yolo_mode
    spawnPc,       \* position of the spawn() call
    child,         \* the child process
    sigterms,      \* what the SIGTERMs sent by stop() hit
    supPc,         \* position of run_pty_io (reader, then reaper)
    waitRes,       \* result of child.wait()
    writerPc,      \* the write task of run_pty_io
    inputQ,        \* the input channel (mpsc, bounded)
    lsnPc,         \* position of run_attach_listener
    readySent,     \* the socket-ready one-shot has fired
    callPc,        \* per caller: "idle", or "sending" (inside input_tx.send)
    callData,      \* per caller: the chunk it is sending
    spawnRet,      \* what spawn() returned, and whether a connect then succeeds
    ret,           \* the most recent return of send_input, stop or resize
    stopReturned,  \* history: stop(Sid) has returned Ok
    size,          \* the current-size cell <<rows, cols>>
    \* ---- session log (log.rs) ----
    buffer,        \* SessionLog.buffer
    max_lines,     \* SessionLog.max_lines
    pushed,        \* number of push() calls so far; entry k is the k-th push
    \* ---- attach connection (manager.rs run_attach_listener) ----
    aPc, aNext, aSubAt, aRingAtSub, aSnapAt, aSnap, aOut, aLagged,
    \* ---- SSE stream (sse.rs stream_logs) ----
    ePc, eNext, eSubAt, eSnapAt, eSnap, eOut, eLagged, eSizeSeen, sizeVer,
    \* ---- server start (server/mod.rs start, restore_sessions) ----
    disk,          \* per session directory: the content of its meta.json
    diskOrig,      \* history: the content when the server started
    srvPc,         \* "off", "restoring", "serving"
    scanned,       \* directories restore_sessions has been through
    getRes,        \* the most recent answer of GET /api/sessions/<id>
    \* ---- PTY input path and one attach connection task (manager.rs) ----
    kSent,         \* history: the chunks put on the input channel, in order
    kCur,          \* the chunk the PTY write task is writing, or None
    kPos,          \* how many of its bytes are written
    kPtyIn,        \* the bytes written to the PTY so far
    kOut,          \* the connection's write task: "running", "ended"
    kIn,           \* the connection's input loop: "reading", "sending", "ended"
    kBuf,          \* the chunk the input loop has read and is sending
    kLog,          \* log entries waiting to be written to the client
    kCliRd,        \* the client's read side: "open", "shut"
    kCliWr,        \* the client's write side: "open", "shut"
    kFirst,        \* history: the first failure or EOF of the connection
    \* ---- resolve_id (manager.rs) ----
    rKeys,         \* the keys of SessionManager.sessions, as Uuids
    rPrefix,       \* the argument of resolve_id
    rPc,           \* "idle", "done"
    rRes,          \* what resolve_id returned
    \* ---- the resize endpoint (api.rs resize_session) ----
    qRows, qCols,  \* history: rows and cols of the most recent request
    \* ---- spawn's argument vector (manager.rs spawn) ----
    jTool,         \* the tool of a spawn call
    jArgs,         \* the extra_args the caller gave
    jPc,           \* "idle", "done"
    jOut,          \* the extra_args given to the child and stored in the meta
    \* ---- transcript parser (chat.rs) ----
    parser,        \* the ChatParser of parse_snapshot, and the messages pushed
    cStatus,       \* meta.status of the session whose transcript is parsed
    cEvent,        \* history: the event consumed last
    hintFresh,     \* history: a progress event set the hint since the last
                   \* event of another type
    \* ---- parse_snapshot on a whole transcript (chat.rs) ----
    transcript,    \* content: the lines of the transcript
    tPc,           \* "idle", "done"
    snapshot,      \* the ChatSnapshot returned
    terminal,      \* the terminal output given to the augmentation, as lines
    \* ---- compact_string (chat.rs) ----
    zIn,           \* the string given, as its characters
    zPc,           \* "off", "typing", "done" (compacted), "named" (tool_use)
    zOut,          \* the string returned, or the panic
    \* ---- the PTY under back-pressure (manager.rs run_pty_io) ----
    rdPc,          \* the read loop: "read", "locking", "pushing"
    wHas,          \* the write task holds a chunk it is writing to the PTY
    pIn,           \* chunks in the PTY's input buffer, unread by the child
    pOut,          \* chunks in the PTY's output buffer, unread by the reader
    chPc           \* the child: "run", or "writing" (inside a write)

rtVars  == <<sessions, meta, metaFile, sockFile, now, yolo_mode, spawnPc, child,
             sigterms, supPc, waitRes, writerPc, inputQ, lsnPc,
             readySent, callPc, callData, spawnRet, ret, stopReturned,
             size>>
logVars == <<buffer, max_lines, pushed>>
attVars == <<aPc, aNext, aSubAt, aRingAtSub, aSnapAt, aSnap, aOut, aLagged>>
sseVars == <<ePc, eNext, eSubAt, eSnapAt, eSnap, eOut, eLagged, eSizeSeen, sizeVer>>
rstVars == <<disk, diskOrig, srvPc, scanned, getRes>>
conVars == <<kSent, kCur, kPos, kPtyIn, kOut, kIn, kBuf, kLog, kCliRd, kCliWr,
             kFirst>>
resVars == <<rKeys, rPrefix, rPc, rRes>>
rszVars == <<qRows, qCols>>
injVars == <<jTool, jArgs, jPc, jOut>>
chatVars == <<parser, cStatus, cEvent, hintFresh>>
lineVars == <<transcript, tPc, snapshot, terminal>>
cmpVars == <<zIn, zPc, zOut>>
prsVars == <<rdPc, wHas, pIn, pOut, chPc>>
extVars == <<rstVars, conVars, resVars, rszVars, injVars, chatVars, lineVars,
             cmpVars, prsVars>>

\* The variables each of the smaller specifications leaves alone.
exRst == <<conVars, resVars, rszVars, injVars, chatVars,
          lineVars, cmpVars, prsVars>>
exCon == <<rstVars, resVars, rszVars, injVars, chatVars,
          lineVars, cmpVars, prsVars>>
exRes == <<rstVars, conVars, rszVars, injVars, chatVars,
          lineVars, cmpVars, prsVars>>
exRsz == <<rstVars, conVars, resVars, injVars, chatVars,
          lineVars, cmpVars, prsVars>>
exInj == <<rstVars, conVars, resVars, rszVars, chatVars,
          lineVars, cmpVars, prsVars>>
exChat == <<rstVars, conVars, resVars, rszVars, injVars,
          lineVars, cmpVars, prsVars>>
exLine == <<rstVars, conVars, resVars, rszVars, injVars,
          chatVars, cmpVars, prsVars>>
exPrs == <<rstVars, conVars, resVars, rszVars, injVars, chatVars, lineVars,
          cmpVars>>
exCmp == <<rstVars, conVars, resVars, rszVars, injVars,
          chatVars, lineVars, prsVars>>
vars    == <<rtVars, logVars, attVars, sseVars, extVars>>

(***************************************************************************)
(* Bounds                                                                  *)
(***************************************************************************)
MaxTime   == 1      \* clock readings range over 0..MaxTime
MaxPush   == 1      \* PTY reads pushed to the log in one run of Spec
InputCap  == 1      \* slots of the input channel (256 in the program)
MaxLines  == 2      \* max_log_lines ranges over 0..MaxLines
BroadcastCap == 2   \* backlog of the broadcast channel (1000 in the program)
MaxLogPush == MaxLines + 2   \* PTY reads pushed in one run of SpecLog

Sid       == "s1"
UnknownId == "s0"
Ids       == {Sid, UnknownId}
Callers   == {"c1"}
ChildPid  == "pid"
Chunks    == {"x"}
None      == "None"

Running        == "Running"
Stopped        == "Stopped"
ErroredNonZero == "Errored(Process exited with non-zero status)"
ErroredWait    == "Errored(wait error)"
Terminal       == {Stopped, ErroredNonZero, ErroredWait}

Claude == "claude"
Codex  == "codex"
ExtraArgsSet == {<<"-v">>}

NoMeta == [status |-> None, pid |-> None, created_at |-> 0, updated_at |-> 0,
           tool |-> None, extra_args |-> <<>>]
NoRet  == [op |-> "none", id |-> None, res |-> None, afterStop |-> FALSE]

Min(a, b) == IF a <= b THEN a ELSE b

\* chrono::Utc::now(): a reading is not before the previous one.
ClockReadings == now .. Min(now + 1, MaxTime)
Max(a, b) == IF a >= b THEN a ELSE b


(***************************************************************************)
(* Session log: SessionLog::push / snapshot (log.rs)                       *)
(***************************************************************************)
\* VecDeque::pop_front: removes the head, a no-op on an empty deque.
PopFront(buf) == IF buf = <<>> THEN buf ELSE Tail(buf)

\* A faulty variant of RingPush: the entry is pushed back twice.
RingPushTwice(buf, max, e) ==
    Append(Append(IF Len(buf) >= max THEN PopFront(buf) ELSE buf, e), e)

\* SessionLog::push, the ring part: head-drop when len >= max_lines, then
\* push_back.  The entry is identified by its push number.
RingPush(buf, max, e) ==
    Append(IF Len(buf) >= max THEN PopFront(buf) ELSE buf, e)

\* SessionLog::push on the session's log: ring, then broadcast (the broadcast
\* channel is the sequence 1..pushed; receivers hold cursors into it).
LogPush ==
    /\ buffer' = RingPush(buffer, max_lines, pushed + 1)
    /\ pushed' = pushed + 1
    /\ UNCHANGED max_lines

\* SessionLog::snapshot: a copy of the ring, oldest first.
Snapshot == buffer

(***************************************************************************)
(* Session runtime: SessionManager (manager.rs)                            *)
(***************************************************************************)
\* The session's RwLock: send_input keeps its read guard while it waits in
\* input_tx.send(), so writers wait for those callers.
NoReader == \A c \in Callers : callPc[c] = "idle"

\* A faulty variant of ChannelClosed: the channel outlives the write task.
ChannelNeverClosed == FALSE

\* The receiver half of the input channel is dropped when the write task ends.
ChannelClosed == writerPc = "stopped"

Returns(op, id, res) ==
    [op |-> op, id |-> id, res |-> res,
     afterStop |-> (id = Sid /\ stopReturned)]

\* spawn, lines 95-104: the permission-skip flag goes to index 0 unless present.
YoloFlag(tool) == IF tool = Claude THEN "--dangerously-skip-permissions" ELSE "--yolo"

\* A faulty variant of InjectYolo: the flag is inserted whether present or not.
InjectYoloAlways(yolo, tool, args) ==
    IF yolo THEN <<YoloFlag(tool)>> \o args ELSE args

InjectYolo(yolo, tool, args) ==
    IF yolo /\ ~(\E i \in 1..Len(args) : args[i] = YoloFlag(tool))
    THEN <<YoloFlag(tool)>> \o args
    ELSE args

\* spawn, lines 121-133: the metadata of a new session.
NewMeta(tool, args, t) ==
    [status |-> Running, pid |-> ChildPid, created_at |-> t, updated_at |-> t,
     tool |-> tool, extra_args |-> InjectYolo(yolo_mode, tool, args)]

\* serde_json::to_string_pretty(&meta) + fs::write: the file holds the meta.
WriteMeta(m) == metaFile' = m

\* spawn fails before a child exists (create_dir_all, pty open, pty resize,
\* child spawn): nothing is registered.
SpawnFail ==
    /\ spawnPc = "idle"
    /\ spawnPc' = "returnedErr"
    /\ spawnRet' = [res |-> "Err", attachable |-> FALSE]
    /\ UNCHANGED <<sessions, meta, metaFile, sockFile, now, yolo_mode, child,
                   sigterms, supPc, waitRes, writerPc, inputQ, lsnPc, readySent,
                   callPc, callData, ret, stopReturned, size>>
    /\ UNCHANGED <<logVars, attVars, sseVars, extVars>>

\* spawn, lines 89-162: child spawned, meta built and written, log and input
\* channel set up, record inserted, run_pty_io task spawned.
SpawnRegister(tool, args) ==
    /\ spawnPc = "idle"
    /\ child' = "alive"
    /\ \E t \in ClockReadings :
          /\ now' = t
          /\ meta' = NewMeta(tool, args, t)
    /\ WriteMeta(meta')
    /\ sessions' = sessions \cup {Sid}
    /\ inputQ' = <<>>
    /\ supPc' = "reading"
    /\ writerPc' = "running"
    /\ spawnPc' = "registered"
    /\ UNCHANGED <<sockFile, yolo_mode, spawnRet, sigterms, waitRes, lsnPc,
                   readySent, callPc, callData, ret, stopReturned, size>>
    /\ UNCHANGED <<logVars, attVars, sseVars, extVars>>

\* spawn, lines 164-188: create the socket directory (an error returns from
\* spawn with the record registered), clone the senders, spawn the listener.
SpawnListener ==
    /\ spawnPc = "registered"
    /\ \/ /\ spawnPc' = "waiting"
          /\ lsnPc' = "started"
          /\ UNCHANGED spawnRet
       \/ /\ spawnPc' = "returnedErr"
          /\ spawnRet' = [res |-> "Err", attachable |-> FALSE]
          /\ UNCHANGED lsnPc
    /\ UNCHANGED <<sessions, meta, metaFile, sockFile, now, yolo_mode, child,
                   sigterms, supPc, waitRes, writerPc, inputQ, readySent,
                   callPc, callData, ret, stopReturned, size>>
    /\ UNCHANGED <<logVars, attVars, sseVars, extVars>>

\* A connect to the socket path succeeds when the file is there and its
\* listener is accepting.
Attachable == sockFile /\ lsnPc = "listening"

\* spawn, lines 190-193: the one-shot has fired; return Ok(meta).
SpawnReturn ==
    /\ spawnPc = "waiting"
    /\ readySent
    /\ spawnPc' = "returnedOk"
    /\ spawnRet' = [res |-> "Ok", attachable |-> Attachable]
    /\ UNCHANGED <<sessions, meta, metaFile, sockFile, now, yolo_mode, child,
                   sigterms, supPc, waitRes, writerPc, inputQ, lsnPc, readySent,
                   callPc, callData, ret, stopReturned, size>>
    /\ UNCHANGED <<logVars, attVars, sseVars, extVars>>

\* run_attach_listener, lines 512-525: unlink a stale file, bind; the one-shot
\* is sent on success and on failure alike.
ListenerBind ==
    /\ lsnPc = "started"
    /\ \/ lsnPc' = "listening" /\ sockFile' = TRUE
       \/ lsnPc' = "failed" /\ sockFile' = FALSE
    /\ readySent' = TRUE
    /\ UNCHANGED <<sessions, meta, metaFile, now, yolo_mode, spawnPc, spawnRet,
                   child, sigterms, supPc, waitRes, writerPc, inputQ, callPc,
                   callData, ret, stopReturned, size>>
    /\ UNCHANGED <<logVars, attVars, sseVars, extVars>>

(***************************************************************************)
(* PTY supervisor: run_pty_io (manager.rs 261-325)                         *)
(***************************************************************************)
\* The child exits, by itself or after a SIGTERM, with success or without.
ChildExit ==
    /\ child = "alive"
    /\ child' \in {"exitedOk", "exitedFail"}
    /\ UNCHANGED <<sessions, meta, metaFile, sockFile, now, yolo_mode, spawnPc,
                   spawnRet, sigterms, supPc, waitRes, writerPc, inputQ, lsnPc,
                   readySent, callPc, callData, ret, stopReturned, size>>
    /\ UNCHANGED <<logVars, attVars, sseVars, extVars>>

\* Write task, lines 273-279: take a chunk from the channel and write it to
\* the PTY; a write error ends the task, which drops the receiver and what
\* the channel still holds.
WriterWrite ==
    /\ writerPc = "running"
    /\ inputQ # <<>>
    /\ \/ inputQ' = Tail(inputQ) /\ UNCHANGED writerPc
       \/ inputQ' = <<>> /\ writerPc' = "stopped"
    /\ UNCHANGED <<sessions, meta, metaFile, sockFile, now, yolo_mode, spawnPc,
                   spawnRet, child, sigterms, supPc, waitRes, lsnPc, readySent,
                   callPc, callData, ret, stopReturned, size>>
    /\ UNCHANGED <<logVars, attVars, sseVars, extVars>>

\* Read loop, lines 283-293: Ok(n): push the text under the session's write
\* lock.
ReaderPush ==
    /\ supPc = "reading"
    /\ pushed < MaxPush
    /\ NoReader
    /\ IF Sid \in sessions THEN LogPush ELSE UNCHANGED logVars
    /\ UNCHANGED <<rtVars, attVars, sseVars, extVars>>

\* Read loop, lines 285/294, then line 298: Ok(0) or Err ends the loop and
\* the write task is aborted.
ReaderStop ==
    /\ supPc = "reading"
    /\ supPc' = "waiting"
    /\ writerPc' = "stopped"
    /\ inputQ' = <<>>
    /\ UNCHANGED <<sessions, meta, metaFile, sockFile, now, yolo_mode, spawnPc,
                   spawnRet, child, sigterms, waitRes, lsnPc, readySent, callPc,
                   callData, ret, stopReturned, size>>
    /\ UNCHANGED <<logVars, attVars, sseVars, extVars>>

\* Line 301: child.wait() returns once the child has exited; the wait itself
\* may fail.
ReaperWait ==
    /\ supPc = "waiting"
    /\ child \in {"exitedOk", "exitedFail"}
    /\ waitRes' \in {IF child = "exitedOk" THEN "success" ELSE "nonzero", "err"}
    /\ child' = "reaped"
    /\ supPc' = "reaping"
    /\ UNCHANGED <<sessions, meta, metaFile, sockFile, now, yolo_mode, spawnPc,
                   spawnRet, sigterms, writerPc, inputQ, lsnPc, readySent,
                   callPc, callData, ret, stopReturned, size>>
    /\ UNCHANGED <<logVars, attVars, sseVars, extVars>>

\* Lines 308-312: the terminal status of an exit.
ExitStatus(w) ==
    CASE w = "success" -> Stopped
      [] w = "nonzero" -> ErroredNonZero
      [] OTHER         -> ErroredWait

\* A faulty variant of ReapMeta: the exit status overwrites any status.
ReapMetaAlways(m, w, t) ==
    [m EXCEPT !.status = ExitStatus(w), !.updated_at = t, !.pid = None]

\* A faulty variant of ReapMeta: updated_at is reset instead of advanced.
ReapMetaEpoch(m, w, t) ==
    [m EXCEPT !.status = IF m.status = Running THEN ExitStatus(w) ELSE m.status,
              !.updated_at = 0,
              !.pid = None]

\* A faulty variant of ReapMeta: the pid stays when the status does.
ReapMetaKeepsPid(m, w, t) ==
    [m EXCEPT !.status = IF m.status = Running THEN ExitStatus(w) ELSE m.status,
              !.updated_at = t,
              !.pid = IF m.status = Running THEN None ELSE m.pid]

\* Lines 307-315: the status only if still Running; updated_at and pid always.
ReapMeta(m, w, t) ==
    [m EXCEPT !.status = IF m.status = Running THEN ExitStatus(w) ELSE m.status,
              !.updated_at = t,
              !.pid = None]

\* Lines 303-324: the reaper's update under the session's write lock.
ReaperUpdate ==
    /\ supPc = "reaping"
    /\ NoReader
    /\ supPc' = "done"
    /\ IF Sid \in sessions
       THEN /\ \E t \in ClockReadings :
                  /\ now' = t
                  /\ meta' = ReapMeta(meta, waitRes, t)
            /\ WriteMeta(meta')
       ELSE UNCHANGED <<meta, metaFile, now>>
    /\ UNCHANGED <<sessions, sockFile, yolo_mode, spawnPc, spawnRet, child,
                   sigterms, waitRes, writerPc, inputQ, lsnPc, readySent,
                   callPc, callData, ret, stopReturned, size>>
    /\ UNCHANGED <<logVars, attVars, sseVars, extVars>>

(***************************************************************************)
(* Operations: get, list, send_input, stop (manager.rs), resize (api.rs)   *)
(***************************************************************************)
\* get, lines 49-54: what get(id) returns in the current state.
Get(id) == IF id \in sessions THEN meta ELSE "SessionNotFound"

\* list, lines 38-47: the metas of the resident sessions (here at most one).
List == IF Sid \in sessions THEN <<meta>> ELSE <<>>

\* A faulty variant of SendInputCheck: the status is not looked at.
SendInputCheckNoStatus(id) ==
    IF id \notin sessions THEN "SessionNotFound" ELSE "send"

\* send_input, lines 197-202: the lookup and the status check; "send" when
\* the call goes on to input_tx.send().
SendInputCheck(id) ==
    IF id \notin sessions THEN "SessionNotFound"
    ELSE IF meta.status # Running THEN "SessionAlreadyStopped"
    ELSE "send"

\* send_input, lines 196-208.  With the channel full the caller waits inside
\* send(), its read guards held; SendInputFinish is the rest of the call.
SendInput(c, id) ==
    /\ callPc[c] = "idle"
    /\ \E chunk \in Chunks :
       IF SendInputCheck(id) # "send"
       THEN /\ ret' = Returns("send_input", id, SendInputCheck(id))
            /\ UNCHANGED <<inputQ, callPc, callData>>
       ELSE IF ChannelClosed
       THEN /\ ret' = Returns("send_input", id, "PtyError")
            /\ UNCHANGED <<inputQ, callPc, callData>>
       ELSE IF Len(inputQ) < InputCap
       THEN /\ inputQ' = Append(inputQ, chunk)
            /\ ret' = Returns("send_input", id, "Ok")
            /\ UNCHANGED <<callPc, callData>>
       ELSE /\ callPc' = [callPc EXCEPT ![c] = "sending"]
            /\ callData' = [callData EXCEPT ![c] = chunk]
            /\ UNCHANGED <<inputQ, ret>>
    /\ UNCHANGED <<sessions, meta, metaFile, sockFile, now, yolo_mode, spawnPc,
                   spawnRet, child, sigterms, supPc, waitRes, writerPc, lsnPc,
                   readySent, stopReturned, size>>
    /\ UNCHANGED <<logVars, attVars, sseVars, extVars>>

SendInputFinish(c) ==
    /\ callPc[c] = "sending"
    /\ \/ /\ ChannelClosed
          /\ ret' = Returns("send_input", Sid, "PtyError")
          /\ UNCHANGED inputQ
       \/ /\ ~ChannelClosed
          /\ Len(inputQ) < InputCap
          /\ inputQ' = Append(inputQ, callData[c])
          /\ ret' = Returns("send_input", Sid, "Ok")
    /\ callPc' = [callPc EXCEPT ![c] = "idle"]
    /\ callData' = [callData EXCEPT ![c] = None]
    /\ UNCHANGED <<sessions, meta, metaFile, sockFile, now, yolo_mode, spawnPc,
                   spawnRet, child, sigterms, supPc, waitRes, writerPc, lsnPc,
                   readySent, stopReturned, size>>
    /\ UNCHANGED <<logVars, attVars, sseVars, extVars>>

\* stop, lines 211-216: the lookup and the status check.
StopCheck(id) ==
    IF id \notin sessions THEN "SessionNotFound"
    ELSE IF meta.status # Running THEN "SessionAlreadyStopped"
    ELSE "Ok"

\* A faulty variant of StopMeta: the status is left as it was.
StopMetaKeepsStatus(m, t) == [m EXCEPT !.updated_at = t]

\* stop, lines 225-226.
StopMeta(m, t) == [m EXCEPT !.status = Stopped, !.updated_at = t]

\* stop, lines 210-241, under the session's write lock.  The SIGTERM goes to
\* the pid, whatever has become of the child.
Stop(id) ==
    /\ id \in sessions => NoReader
    /\ ret' = Returns("stop", id, StopCheck(id))
    /\ IF StopCheck(id) = "Ok"
       THEN /\ sigterms' = IF meta.pid # None THEN sigterms \cup {child}
                           ELSE sigterms
            /\ \E t \in ClockReadings :
                  /\ now' = t
                  /\ meta' = StopMeta(meta, t)
            /\ WriteMeta(meta')
            /\ sockFile' = FALSE
            /\ stopReturned' = TRUE
       ELSE UNCHANGED <<sigterms, meta, metaFile, sockFile, stopReturned, now>>
    /\ UNCHANGED <<sessions, yolo_mode, spawnPc, spawnRet, child, supPc, waitRes,
                   writerPc, inputQ, lsnPc, readySent, callPc, callData, size>>
    /\ UNCHANGED <<logVars, attVars, sseVars, extVars>>

\* resize_session, api.rs line 119: the bounds of a resize request.
MaxDim == 500

\* A faulty variant of ValidSize: only the rows are checked.
ValidSizeRowsOnly(rows, cols) == ~(rows = 0 \/ rows > MaxDim)

ValidSize(rows, cols) == ~(rows = 0 \/ rows > MaxDim \/ cols = 0 \/ cols > MaxDim)

\* SessionManager::resize: the lookup and the status check of the other
\* mutating operations.
ManagerResizeCheck(id) ==
    IF id \notin sessions THEN "SessionNotFound"
    ELSE IF meta.status # Running THEN "SessionAlreadyStopped"
    ELSE "Ok"

\* resize_session, api.rs lines 114-129: the bounds first, then mgr.resize.
ResizeResult(id, rows, cols) ==
    IF ~ValidSize(rows, cols) THEN "InvalidSize" ELSE ManagerResizeCheck(id)

\* Requests of the resize endpoint: out of bounds on either side, and valid.
SizeInputs == {<<0, 80>>, <<24, MaxDim + 1>>, <<MaxDim, MaxDim>>}

ResizeSession(id, rows, cols) ==
    /\ ret' = [Returns("resize", id, ResizeResult(id, rows, cols))
                 EXCEPT !.op = IF ValidSize(rows, cols) THEN "resize"
                               ELSE "resize_out_of_bounds"]
    /\ size' = IF ResizeResult(id, rows, cols) = "Ok" THEN <<rows, cols>> ELSE size
    /\ UNCHANGED <<sessions, meta, metaFile, sockFile, now, yolo_mode, spawnPc,
                   spawnRet, child, sigterms, supPc, waitRes, writerPc, inputQ,
                   lsnPc, readySent, callPc, callData, stopReturned>>
    /\ UNCHANGED <<logVars, attVars, sseVars, extVars>>

(***************************************************************************)
(* Spec: the life cycle of one session                                     *)
(***************************************************************************)
NoGet == [id |-> None, found |-> FALSE, meta |-> NoMeta]

InitRestoreIdle ==
    /\ disk = <<>> /\ diskOrig = <<>> /\ srvPc = "off" /\ scanned = {}
    /\ getRes = NoGet

NoChunk == [src |-> "none", k |-> 0]

InitConnIdle ==
    /\ kSent = <<>> /\ kCur = NoChunk /\ kPos = 0 /\ kPtyIn = <<>>
    /\ kOut = "none" /\ kIn = "none" /\ kBuf = NoChunk /\ kLog = 0
    /\ kCliRd = "none" /\ kCliWr = "none" /\ kFirst = "none"

\* A Uuid that is no session's, and the value of a call not made.
NoUuid == <<>>
NoResolve == [res |-> "none", id |-> NoUuid, n |-> 0]

InitResolveIdle ==
    /\ rKeys = {} /\ rPrefix = <<>> /\ rPc = "off" /\ rRes = NoResolve

InitResizeIdle == qRows = 0 /\ qCols = 0

InitInjectIdle == jTool = None /\ jArgs = <<>> /\ jPc = "off" /\ jOut = <<>>

InitLinesIdle ==
    transcript = <<>> /\ tPc = "off" /\ snapshot = <<>> /\ terminal = <<>>

InitCompactIdle == zIn = <<>> /\ zPc = "off" /\ zOut = <<>>

InitPressureIdle ==
    rdPc = "off" /\ wHas = FALSE /\ pIn = 0 /\ pOut = 0 /\ chPc = "off"

\* No transcript is being parsed.
InitChatIdle ==
    /\ parser = <<>> /\ cStatus = None /\ cEvent = <<>> /\ hintFresh = FALSE

InitExtIdle ==
    /\ InitRestoreIdle /\ InitConnIdle /\ InitResolveIdle
    /\ InitResizeIdle /\ InitInjectIdle /\ InitChatIdle
    /\ InitLinesIdle /\ InitCompactIdle /\ InitPressureIdle

InitLogIdle ==
    /\ aPc = "idle" /\ aNext = 0 /\ aSubAt = 0 /\ aRingAtSub = <<>>
    /\ aSnapAt = 0 /\ aSnap = <<>> /\ aOut = <<>> /\ aLagged = FALSE
    /\ ePc = "idle" /\ eNext = 0 /\ eSubAt = 0 /\ eSnapAt = 0 /\ eSnap = <<>>
    /\ eOut = <<>> /\ eLagged = FALSE /\ eSizeSeen = 0 /\ sizeVer = 0

InitFresh ==
    /\ sessions = {}
    /\ meta = NoMeta
    /\ metaFile = NoMeta
    /\ sockFile = FALSE
    /\ now = 0
    /\ yolo_mode \in BOOLEAN
    /\ spawnPc = "idle"
    /\ spawnRet = [res |-> None, attachable |-> FALSE]
    /\ child = "none"
    /\ sigterms = {}
    /\ supPc = "none"
    /\ waitRes = None
    /\ writerPc = "none"
    /\ inputQ = <<>>
    /\ lsnPc = "none"
    /\ readySent = FALSE
    /\ callPc = [c \in Callers |-> "idle"]
    /\ callData = [c \in Callers |-> None]
    /\ ret = NoRet
    /\ stopReturned = FALSE
    /\ size = <<24, 80>>
    /\ buffer = <<>>
    /\ max_lines = 1
    /\ pushed = 0

Init ==
    /\ InitFresh
    /\ InitLogIdle
    /\ InitExtIdle

Next ==
    \/ SpawnFail
    \/ \E tool \in {Claude}, args \in ExtraArgsSet : SpawnRegister(tool, args)
    \/ SpawnListener
    \/ ListenerBind
    \/ SpawnReturn
    \/ ChildExit
    \/ WriterWrite
    \/ ReaderPush
    \/ ReaderStop
    \/ ReaperWait
    \/ ReaperUpdate
    \/ \E c \in Callers, id \in Ids : SendInput(c, id)
    \/ \E c \in Callers : SendInputFinish(c)
    \/ \E id \in Ids : Stop(id)
    \/ \E id \in Ids, rc \in SizeInputs : ResizeSession(id, rc[1], rc[2])

Spec == Init /\ [][Next]_vars


(***************************************************************************)
(* Broadcast receivers (tokio::sync::broadcast, log.rs 23, 44, 63-65)      *)
(*                                                                         *)
(* The channel holds the last BroadcastCap entries sent.  A receiver is a  *)
(* cursor: the number of the last entry it has passed.                     *)
(***************************************************************************)
\* A faulty variant of Subscribe: the receiver starts one entry back.
SubscribeOneBack == Max(pushed - 1, 0)

\* SessionLog::subscribe / broadcast_tx.subscribe(): the history of a new
\* receiver starts at the next push.
Subscribe == pushed

\* recv() on a receiver at cursor n: the oldest entry is gone (Lagged), the
\* next entry is there, or nothing is (the receiver waits).
RecvKind(n) ==
    IF n < pushed - BroadcastCap THEN "lagged"
    ELSE IF n < pushed THEN "entry"
    ELSE "empty"

\* The cursor after recv(): past the entry, or at the oldest one kept.
RecvCursor(n) ==
    IF RecvKind(n) = "lagged" THEN pushed - BroadcastCap
    ELSE IF RecvKind(n) = "entry" THEN n + 1
    ELSE n

(***************************************************************************)
(* The PTY reader as producer (run_pty_io, manager.rs 283-293)             *)
(***************************************************************************)
PtyPush ==
    /\ pushed < MaxLogPush
    /\ LogPush
    /\ UNCHANGED <<rtVars, attVars, sseVars, extVars>>

(***************************************************************************)
(* One attach connection (run_attach_listener, manager.rs 529-598)         *)
(***************************************************************************)
SnapRec(n) == [src |-> "snapshot", n |-> n]
LiveRec(n) == [src |-> "live", n |-> n]

\* Lines 530-541: accept, then subscribe to the broadcast.
AttachAccept ==
    /\ aPc = "idle"
    /\ aPc' = "subscribed"
    /\ aNext' = Subscribe
    /\ aSubAt' = pushed
    /\ aRingAtSub' = buffer
    /\ UNCHANGED <<aSnapAt, aSnap, aOut, aLagged>>
    /\ UNCHANGED <<rtVars, logVars, sseVars, extVars>>

\* A faulty variant of AttachSnapshot, the two steps in the other order: the
\* snapshot is the ring as it was at accept, and the receiver subscribes now.
AttachSnapshotBeforeSubscribe ==
    /\ aPc = "subscribed"
    /\ aPc' = "replay"
    /\ aSnap' = aRingAtSub
    /\ aSnapAt' = aSubAt
    /\ aNext' = Subscribe
    /\ aSubAt' = pushed
    /\ UNCHANGED <<aRingAtSub, aOut, aLagged>>
    /\ UNCHANGED <<rtVars, logVars, sseVars, extVars>>

\* Lines 544-552: the ring snapshot, under the session's read lock.
AttachSnapshot ==
    /\ aPc = "subscribed"
    /\ aPc' = "replay"
    /\ aSnap' = IF Sid \in sessions THEN Snapshot ELSE <<>>
    /\ aSnapAt' = pushed
    /\ UNCHANGED <<aNext, aSubAt, aRingAtSub, aOut, aLagged>>
    /\ UNCHANGED <<rtVars, logVars, sseVars, extVars>>

\* What the write task has written once the replay loop is over.
Replayed(snap) == [i \in 1..Len(snap) |-> SnapRec(snap[i])]

\* Lines 558-565: replay the snapshot; a failed write ends the write task.
AttachReplay ==
    /\ aPc = "replay"
    /\ \/ aOut' = Replayed(aSnap) /\ aPc' = "live"
       \/ \E k \in 0..(Len(aSnap) - 1) :
             aOut' = SubSeq(Replayed(aSnap), 1, k) /\ aPc' = "closed"
    /\ UNCHANGED <<aNext, aSubAt, aRingAtSub, aSnapAt, aSnap, aLagged>>
    /\ UNCHANGED <<rtVars, logVars, sseVars, extVars>>

\* A faulty variant of AttachRecv: a Lagged ends the write task, as Closed
\* does.
AttachRecvLaggedBreaks ==
    /\ aPc = "live"
    /\ RecvKind(aNext) # "empty"
    /\ aNext' = RecvCursor(aNext)
    /\ IF RecvKind(aNext) = "lagged"
       THEN aLagged' = TRUE /\ aPc' = "closed" /\ UNCHANGED aOut
       ELSE /\ UNCHANGED aLagged
            /\ \/ aOut' = Append(aOut, LiveRec(aNext + 1)) /\ UNCHANGED aPc
               \/ aPc' = "closed" /\ UNCHANGED aOut
    /\ UNCHANGED <<aSubAt, aRingAtSub, aSnapAt, aSnap>>
    /\ UNCHANGED <<rtVars, logVars, sseVars, extVars>>

\* Lines 568-579: forward a live entry (a failed write ends the task); a
\* Lagged is skipped.
AttachRecv ==
    /\ aPc = "live"
    /\ RecvKind(aNext) # "empty"
    /\ aNext' = RecvCursor(aNext)
    /\ IF RecvKind(aNext) = "lagged"
       THEN aLagged' = TRUE /\ UNCHANGED <<aOut, aPc>>
       ELSE /\ UNCHANGED aLagged
            /\ \/ aOut' = Append(aOut, LiveRec(aNext + 1)) /\ UNCHANGED aPc
               \/ aPc' = "closed" /\ UNCHANGED aOut
    /\ UNCHANGED <<aSubAt, aRingAtSub, aSnapAt, aSnap>>
    /\ UNCHANGED <<rtVars, logVars, sseVars, extVars>>

\* Lines 583-596: the client's reader ends (EOF, error, or the input channel
\* is closed) and the write task is aborted.
AttachAbort ==
    /\ aPc \in {"replay", "live"}
    /\ aPc' = "closed"
    /\ UNCHANGED <<aNext, aSubAt, aRingAtSub, aSnapAt, aSnap, aOut, aLagged>>
    /\ UNCHANGED <<rtVars, logVars, sseVars, extVars>>

(***************************************************************************)
(* One SSE stream (stream_logs, sse.rs 23-95)                              *)
(***************************************************************************)
ResizeEv(v) == [t |-> "resize", n |-> v]
LogEv(n)    == [t |-> "log", n |-> n]
GapEv       == [t |-> "gap", n |-> 0]

\* Lines 24-27: get_log_snapshot.
SseSnapshot ==
    /\ ePc = "idle"
    /\ ePc' = IF Sid \in sessions THEN "snapped" ELSE "closed"
    /\ eSnap' = IF Sid \in sessions THEN Snapshot ELSE <<>>
    /\ eSnapAt' = pushed
    /\ UNCHANGED <<eNext, eSubAt, eOut, eLagged, eSizeSeen, sizeVer>>
    /\ UNCHANGED <<rtVars, logVars, attVars, extVars>>

\* Lines 29-37: subscribe_logs, then subscribe_size.
SseSubscribe ==
    /\ ePc = "snapped"
    /\ ePc' = IF Sid \in sessions THEN "subscribed" ELSE "closed"
    /\ eNext' = Subscribe
    /\ eSubAt' = pushed
    /\ UNCHANGED <<eSnapAt, eSnap, eOut, eLagged, eSizeSeen, sizeVer>>
    /\ UNCHANGED <<rtVars, logVars, attVars, extVars>>

\* Lines 41-57: the initial resize event, then the snapshot entries.
SseStart ==
    /\ ePc = "subscribed"
    /\ ePc' = "live"
    /\ eSizeSeen' = sizeVer
    /\ eOut' = <<ResizeEv(sizeVer)>> \o [i \in 1..Len(eSnap) |-> LogEv(eSnap[i])]
    /\ UNCHANGED <<eNext, eSubAt, eSnapAt, eSnap, eLagged, sizeVer>>
    /\ UNCHANGED <<rtVars, logVars, attVars, extVars>>

\* Lines 64-76: a live entry becomes a log event, a Lagged a gap event.
SseRecvLog ==
    /\ ePc = "live"
    /\ RecvKind(eNext) # "empty"
    /\ eNext' = RecvCursor(eNext)
    /\ IF RecvKind(eNext) = "lagged"
       THEN eLagged' = TRUE /\ eOut' = Append(eOut, GapEv)
       ELSE UNCHANGED eLagged /\ eOut' = Append(eOut, LogEv(eNext + 1))
    /\ UNCHANGED <<ePc, eSubAt, eSnapAt, eSnap, eSizeSeen, sizeVer>>
    /\ UNCHANGED <<rtVars, logVars, attVars, extVars>>

\* Lines 77-86: the size cell changed: a resize event.
SseResize ==
    /\ ePc = "live"
    /\ eSizeSeen # sizeVer
    /\ eSizeSeen' = sizeVer
    /\ eOut' = Append(eOut, ResizeEv(sizeVer))
    /\ UNCHANGED <<ePc, eNext, eSubAt, eSnapAt, eSnap, eLagged, sizeVer>>
    /\ UNCHANGED <<rtVars, logVars, attVars, extVars>>

\* Lines 73-75, 83-85: the response was dropped, tx.send fails, the task ends.
SseClientGone ==
    /\ ePc = "live"
    /\ ePc' = "closed"
    /\ UNCHANGED <<eNext, eSubAt, eSnapAt, eSnap, eOut, eLagged, eSizeSeen, sizeVer>>
    /\ UNCHANGED <<rtVars, logVars, attVars, extVars>>

\* Versions of the size cell: as spawned, and after a resize.
SizeVersions == {0, 1}

\* A successful resize writes the size cell, which wakes its watchers.
SizeChange ==
    /\ sizeVer \in SizeVersions
    /\ sizeVer + 1 \in SizeVersions
    /\ sizeVer' = sizeVer + 1
    /\ UNCHANGED <<ePc, eNext, eSubAt, eSnapAt, eSnap, eOut, eLagged, eSizeSeen>>
    /\ UNCHANGED <<rtVars, logVars, attVars, extVars>>

(***************************************************************************)
(* SpecLog: a running session, its log and its observers                   *)
(***************************************************************************)
InitRunning ==
    /\ sessions = {Sid}
    /\ yolo_mode = FALSE
    /\ meta = NewMeta(Claude, <<>>, 0)
    /\ metaFile = meta
    /\ sockFile = TRUE
    /\ now = 0
    /\ spawnPc = "returnedOk"
    /\ spawnRet = [res |-> "Ok", attachable |-> TRUE]
    /\ child = "alive"
    /\ sigterms = {}
    /\ supPc = "reading"
    /\ waitRes = None
    /\ writerPc = "running"
    /\ inputQ = <<>>
    /\ lsnPc = "listening"
    /\ readySent = TRUE
    /\ callPc = [c \in Callers |-> "idle"]
    /\ callData = [c \in Callers |-> None]
    /\ ret = NoRet
    /\ stopReturned = FALSE
    /\ size = <<24, 80>>

InitLog ==
    /\ InitRunning
    /\ buffer = <<>>
    /\ max_lines \in 0..MaxLines
    /\ pushed = 0
    /\ InitLogIdle
    /\ InitExtIdle

NextLog ==
    \/ PtyPush
    \/ AttachAccept
    \/ AttachSnapshot
    \/ AttachReplay
    \/ AttachRecv
    \/ AttachAbort
    \/ SseSnapshot
    \/ SseSubscribe
    \/ SseStart
    \/ SseRecvLog
    \/ SseResize
    \/ SseClientGone
    \/ SizeChange

SpecLog == InitLog /\ [][NextLog]_vars


(***************************************************************************)
(* SpecAttach, SpecSse: the log with one kind of observer                  *)
(***************************************************************************)
NextAttach ==
    \/ PtyPush
    \/ AttachAccept
    \/ AttachSnapshot
    \/ AttachReplay
    \/ AttachRecv
    \/ AttachAbort

SpecAttach == InitLog /\ [][NextAttach]_vars

NextSse ==
    \/ PtyPush
    \/ SseSnapshot
    \/ SseSubscribe
    \/ SseStart
    \/ SseRecvLog
    \/ SseResize
    \/ SseClientGone
    \/ SizeChange

SpecSse == InitLog /\ [][NextSse]_vars


(***************************************************************************)
(* SpecRestore: server start (server/mod.rs start, restore_sessions)       *)
(***************************************************************************)
\* The runtime variables but the clock.
rtNoClock == <<sessions, meta, metaFile, sockFile, yolo_mode, spawnPc, child,
               sigterms, supPc, waitRes, writerPc, inputQ, lsnPc, readySent,
               callPc, callData, spawnRet, ret, stopReturned, size>>

\* The subdirectories of the sessions directory.
Dirs == {Sid, "s2"}

\* The directory holds no meta.json.
NoFile  == [kind |-> "nofile", m |-> NoMeta]
\* A meta.json that does not read or does not parse.
Garbage == [kind |-> "garbage", m |-> NoMeta]
\* A meta.json that parses to the SessionMeta m.
MetaFile(m) == [kind |-> "meta", m |-> m]

\* What an earlier run of the server can have left in a meta.json.
StoredMetas ==
    {MetaFile([status |-> st, pid |-> p, created_at |-> 0, updated_at |-> 0,
               tool |-> Claude, extra_args |-> <<>>]) :
        st \in {Running, Stopped, ErroredNonZero}, p \in {None, ChildPid}}

\* Lines 80-86: the file exists, reads and parses as a SessionMeta.
IsMeta(c) == c.kind = "meta"

\* A faulty variant of RestoreMeta: the pid is kept.
RestoreMetaKeepsPid(m, t) ==
    IF m.status = Running
    THEN [m EXCEPT !.status = Stopped, !.updated_at = t]
    ELSE m

\* Lines 89-92: a meta that says Running becomes Stopped, without a pid.
RestoreMeta(m, t) ==
    IF m.status = Running
    THEN [m EXCEPT !.status = Stopped, !.pid = None, !.updated_at = t]
    ELSE m

\* start, lines 38-43: a new manager, then restore_sessions.
ServerStart ==
    /\ srvPc = "off"
    /\ srvPc' = "restoring"
    /\ UNCHANGED <<disk, diskOrig, scanned, getRes>>
    /\ UNCHANGED <<rtVars, logVars, attVars, sseVars, exRst>>

\* restore_sessions, lines 78-114: one directory entry.  The file is written
\* only when the meta said Running.
RestoreEntry(d) ==
    /\ srvPc = "restoring"
    /\ d \notin scanned
    /\ scanned' = scanned \cup {d}
    /\ \E t \in ClockReadings :
          LET c == disk[d]
              new == IF IsMeta(c) THEN MetaFile(RestoreMeta(c.m, t)) ELSE c
          IN  /\ disk' = [disk EXCEPT ![d] = new]
              /\ now' = IF new # c THEN t ELSE now
    /\ UNCHANGED <<diskOrig, srvPc, getRes>>
    /\ UNCHANGED <<rtNoClock, logVars, attVars, sseVars, exRst>>

\* start, lines 45-63: the loop is over; the router is built around the
\* manager and the server accepts requests.
ServerServe ==
    /\ srvPc = "restoring"
    /\ scanned = Dirs
    /\ srvPc' = "serving"
    /\ UNCHANGED <<disk, diskOrig, scanned, getRes>>
    /\ UNCHANGED <<rtVars, logVars, attVars, sseVars, exRst>>

\* get_session, api.rs lines 85-95: GET /api/sessions/<id> answers mgr.get(id).
GetSession(id) ==
    /\ srvPc = "serving"
    /\ getRes' = IF id \in sessions
                  THEN [id |-> id, found |-> TRUE, meta |-> Get(id)]
                  ELSE [id |-> id, found |-> FALSE, meta |-> NoMeta]
    /\ UNCHANGED <<disk, diskOrig, srvPc, scanned>>
    /\ UNCHANGED <<rtVars, logVars, attVars, sseVars, exRst>>

InitRestore ==
    /\ InitFresh
    /\ InitLogIdle
    /\ InitConnIdle
    /\ InitResolveIdle
    /\ InitResizeIdle /\ InitInjectIdle /\ InitChatIdle
    /\ InitLinesIdle /\ InitCompactIdle /\ InitPressureIdle
    /\ diskOrig \in [Dirs -> StoredMetas \cup {NoFile, Garbage}]
    /\ disk = diskOrig
    /\ srvPc = "off"
    /\ scanned = {}
    /\ getRes = NoGet

NextRestore ==
    \/ ServerStart
    \/ \E d \in Dirs : RestoreEntry(d)
    \/ ServerServe
    \/ \E id \in Dirs : GetSession(id)

SpecRestore == InitRestore /\ [][NextRestore]_vars

(***************************************************************************)
(* SpecConn: the PTY input path (send_input, the input loop of an attach   *)
(* connection, the write task of run_pty_io) and the two halves of one     *)
(* attach connection task (manager.rs 554-597)                             *)
(***************************************************************************)
MaxChunk == 2      \* chunks one producer sends
ChunkLen == 2      \* bytes of a chunk

\* The runtime variables but the input channel and its write task.
rtNoInput == <<sessions, meta, metaFile, sockFile, now, yolo_mode, spawnPc,
               child, sigterms, supPc, waitRes, lsnPc, readySent, callPc,
               callData, spawnRet, ret, stopReturned, size>>

\* The k-th chunk of a producer, and its b-th byte.
Chunk(src, k) == [src |-> src, k |-> k]
Byte(c, b)    == [src |-> c.src, k |-> c.k, b |-> b]

\* The bytes from .. to of chunk c.
Bytes(c, from, to) == [i \in 1..(to - from + 1) |-> Byte(c, from + i - 1)]

\* The chunks a producer has made so far.
Made(src) ==
    Cardinality({i \in 1..Len(kSent) : kSent[i].src = src})
        + (IF kBuf.src = src THEN 1 ELSE 0)

First(e) == IF kFirst = "none" THEN e ELSE kFirst

\* send_input, lines 196-208, on the Running session: the request's bytes go
\* on the channel as one chunk once it has room.
SendInputEnqueue ==
    /\ SendInputCheck(Sid) = "send"
    /\ ~ChannelClosed
    /\ Len(inputQ) < InputCap
    /\ Made("http") < MaxChunk
    /\ inputQ' = Append(inputQ, Chunk("http", Made("http") + 1))
    /\ kSent' = Append(kSent, Chunk("http", Made("http") + 1))
    /\ UNCHANGED <<kCur, kPos, kPtyIn, kOut, kIn, kBuf, kLog, kCliRd, kCliWr, kFirst>>
    /\ UNCHANGED <<rtNoInput, writerPc, logVars, attVars, sseVars, exCon>>

\* Write task, line 274: input_rx.recv().
WriterTake ==
    /\ writerPc = "running"
    /\ kCur = NoChunk
    /\ inputQ # <<>>
    /\ kCur' = Head(inputQ)
    /\ kPos' = 0
    /\ inputQ' = Tail(inputQ)
    /\ UNCHANGED <<kSent, kPtyIn, kOut, kIn, kBuf, kLog, kCliRd, kCliWr, kFirst>>
    /\ UNCHANGED <<rtNoInput, writerPc, logVars, attVars, sseVars, exCon>>

\* A faulty variant of WriteAllDone: one write call is taken for the chunk.
WriteDoneAfterOne(pos) == pos >= 1

\* write_all goes on until every byte of the chunk is written.
WriteAllDone(pos) == pos = ChunkLen

\* Write task, lines 275-277: write_all(&data) is a loop of writes, each of
\* one byte or more; an error ends the task, which drops the receiver.
WriterWriteAll ==
    /\ writerPc = "running"
    /\ kCur # NoChunk
    /\ \/ \E n \in 1..(ChunkLen - kPos) :
             /\ kPtyIn' = kPtyIn \o Bytes(kCur, kPos + 1, kPos + n)
             /\ IF WriteAllDone(kPos + n)
                THEN kCur' = NoChunk /\ kPos' = 0
                ELSE kPos' = kPos + n /\ UNCHANGED kCur
             /\ UNCHANGED <<writerPc, inputQ>>
       \/ /\ writerPc' = "stopped"
          /\ inputQ' = <<>>
          /\ kCur' = NoChunk /\ kPos' = 0
          /\ UNCHANGED kPtyIn
    /\ UNCHANGED <<kSent, kOut, kIn, kBuf, kLog, kCliRd, kCliWr, kFirst>>
    /\ UNCHANGED <<rtNoInput, logVars, attVars, sseVars, exCon>>

\* An entry for the connection's write task: a snapshot entry to replay or
\* a live entry pushed by the PTY reader.
ConnLogArrives ==
    /\ supPc = "reading"
    /\ kOut = "running"
    /\ kLog = 0
    /\ kLog' = kLog + 1
    /\ UNCHANGED <<kSent, kCur, kPos, kPtyIn, kOut, kIn, kBuf, kCliRd, kCliWr, kFirst>>
    /\ UNCHANGED <<rtVars, logVars, attVars, sseVars, exCon>>

\* Write task of the connection, lines 558-579: write an entry to the
\* client; a failed write ends this task, and only this task.
ConnWrite ==
    /\ kOut = "running"
    /\ kLog > 0
    /\ IF kCliRd = "open"
       THEN kLog' = kLog - 1 /\ UNCHANGED <<kOut, kFirst>>
       ELSE kOut' = "ended" /\ kFirst' = First("write_failed") /\ UNCHANGED kLog
    /\ UNCHANGED <<kSent, kCur, kPos, kPtyIn, kIn, kBuf, kCliRd, kCliWr>>
    /\ UNCHANGED <<rtVars, logVars, attVars, sseVars, exCon>>

\* Input loop, lines 585-587: reader.read returns Ok(n), n > 0.
ConnRead ==
    /\ kIn = "reading"
    /\ kCliWr = "open"
    /\ Made("attach") < MaxChunk
    /\ kBuf' = Chunk("attach", Made("attach") + 1)
    /\ kIn' = "sending"
    /\ UNCHANGED <<kSent, kCur, kPos, kPtyIn, kOut, kLog, kCliRd, kCliWr, kFirst>>
    /\ UNCHANGED <<rtVars, logVars, attVars, sseVars, exCon>>

\* Input loop, lines 588-590 and 596: input_tx.send; when the channel is
\* closed the loop breaks and the write task is aborted.
ConnSend ==
    /\ kIn = "sending"
    /\ IF ChannelClosed
       THEN /\ kIn' = "ended"
            /\ kOut' = "ended"
            /\ kFirst' = First("send_failed")
            /\ UNCHANGED <<inputQ, kSent>>
       ELSE /\ Len(inputQ) < InputCap
            /\ inputQ' = Append(inputQ, kBuf)
            /\ kSent' = Append(kSent, kBuf)
            /\ kIn' = "reading"
            /\ UNCHANGED <<kOut, kFirst>>
    /\ kBuf' = NoChunk
    /\ UNCHANGED <<kCur, kPos, kPtyIn, kLog, kCliRd, kCliWr>>
    /\ UNCHANGED <<rtNoInput, writerPc, logVars, attVars, sseVars, exCon>>

\* Input loop, lines 585/592 and 596: reader.read returns Ok(0) or an error;
\* the loop breaks and the write task is aborted.
ConnEof ==
    /\ kIn = "reading"
    /\ kCliWr = "shut"
    /\ kIn' = "ended"
    /\ kOut' = "ended"
    /\ kFirst' = First("eof")
    /\ UNCHANGED <<kSent, kCur, kPos, kPtyIn, kBuf, kLog, kCliRd, kCliWr>>
    /\ UNCHANGED <<rtVars, logVars, attVars, sseVars, exCon>>

\* The client shuts down the half of the socket it writes to: the server's
\* reader then reads EOF.
ClientShutWrite ==
    /\ kCliWr = "open"
    /\ kCliWr' = "shut"
    /\ UNCHANGED <<kSent, kCur, kPos, kPtyIn, kOut, kIn, kBuf, kLog, kCliRd, kFirst>>
    /\ UNCHANGED <<rtVars, logVars, attVars, sseVars, exCon>>

\* The client shuts down the half of the socket it reads from: the server's
\* writes then fail.
ClientShutRead ==
    /\ kCliRd = "open"
    /\ kCliRd' = "shut"
    /\ UNCHANGED <<kSent, kCur, kPos, kPtyIn, kOut, kIn, kBuf, kLog, kCliWr, kFirst>>
    /\ UNCHANGED <<rtVars, logVars, attVars, sseVars, exCon>>

\* Both tasks of the connection have ended, so both halves of the stream are
\* dropped and the socket is closed: the client's reader reads EOF.
ClientSeesEof == kOut = "ended" /\ kIn = "ended"

InitConn ==
    /\ InitRunning
    /\ buffer = <<>> /\ max_lines = 1 /\ pushed = 0
    /\ InitLogIdle
    /\ InitRestoreIdle
    /\ InitResolveIdle
    /\ InitResizeIdle /\ InitInjectIdle /\ InitChatIdle
    /\ InitLinesIdle /\ InitCompactIdle /\ InitPressureIdle
    /\ kSent = <<>> /\ kCur = NoChunk /\ kPos = 0 /\ kPtyIn = <<>>
    /\ kOut = "running" /\ kIn = "reading" /\ kBuf = NoChunk
    /\ kLog \in {0, 1}
    /\ kCliRd = "open" /\ kCliWr = "open" /\ kFirst = "none"

NextConn ==
    \/ SendInputEnqueue
    \/ WriterTake
    \/ WriterWriteAll
    \/ ChildExit
    \/ ReaderStop
    \/ ReaperWait
    \/ ReaperUpdate
    \/ ConnLogArrives
    \/ ConnWrite
    \/ ConnRead
    \/ ConnSend
    \/ ConnEof
    \/ ClientShutWrite
    \/ ClientShutRead

\* The steps of the server's tasks that are runnable without the client or
\* the child doing anything; the runtime runs a task that stays runnable.
ConnServerSteps ==
    \/ WriterTake
    \/ WriterWriteAll
    \/ ReaperWait
    \/ ReaperUpdate
    \/ ConnWrite
    \/ ConnSend
    \/ ConnEof

SpecConn == InitConn /\ [][NextConn]_vars /\ WF_vars(ConnServerSteps)

\* SpecConnStop: the same session and connection, with stop(id) called at
\* any time.
NextConnStop ==
    \/ NextConn
    \/ Stop(Sid)

SpecConnStop == InitConn /\ [][NextConnStop]_vars

(***************************************************************************)
(* SpecResolve: resolve_id (manager.rs 56-80) on a registry of sessions    *)
(***************************************************************************)
IdLen == 2         \* characters of a Uuid's string (36 in the program)

\* The value of a hexadecimal digit; a Uuid is the sequence of its digits.
Nibbles == {10, 11}
Uuids   == [1..IdLen -> Nibbles]

\* Characters of an argument: hexadecimal digits of either case, and one
\* that is no digit.
Chars == {"a", "b", "A", "z"}
Strings(maxLen) == UNION {[1..n -> Chars] : n \in 0..maxLen}

\* Uuid's Display: lowercase digits.
HexDigit(v) == IF v = 10 THEN "a" ELSE "b"
IdToString(id) == [i \in 1..Len(id) |-> HexDigit(id[i])]

\* Uuid's FromStr: the digits in either case, and nothing but IdLen digits.
IsHex(c)    == c \in {"a", "A", "b"}
HexValue(c) == IF c \in {"a", "A"} THEN 10 ELSE 11
ParsesAsUuid(str) == Len(str) = IdLen /\ \A i \in 1..Len(str) : IsHex(str[i])
ParseUuid(str) == [i \in 1..Len(str) |-> HexValue(str[i])]

\* A faulty variant of StartsWith: the case of a character is ignored.
StartsWithAnyCase(str, prefix) ==
    /\ Len(prefix) <= Len(str)
    /\ \A i \in 1..Len(prefix) :
          IsHex(prefix[i]) /\ HexValue(prefix[i]) = HexValue(str[i])

\* str::starts_with, line 71.
StartsWith(str, prefix) ==
    Len(prefix) <= Len(str) /\ SubSeq(str, 1, Len(prefix)) = prefix

\* Lines 69-73: the keys whose string starts with the argument.
Matches(keys, prefix) == {id \in keys : StartsWith(IdToString(id), prefix)}

\* Lines 57-80.
ResolveId(keys, prefix) ==
    IF ParsesAsUuid(prefix)
    THEN IF ParseUuid(prefix) \in keys
         THEN [res |-> "Ok", id |-> ParseUuid(prefix), n |-> 0]
         ELSE [res |-> "SessionNotFound", id |-> ParseUuid(prefix), n |-> 0]
    ELSE LET matches == Matches(keys, prefix)
         IN  CASE Cardinality(matches) = 0 ->
                    [res |-> "NoSessionMatching", id |-> NoUuid, n |-> 0]
               [] Cardinality(matches) = 1 ->
                    [res |-> "Ok", id |-> CHOOSE id \in matches : TRUE, n |-> 0]
               [] OTHER ->
                    [res |-> "SessionsMatch", id |-> NoUuid,
                     n |-> Cardinality(matches)]

\* A call of resolve_id.
ResolveCall ==
    /\ rPc = "idle"
    /\ rPc' = "done"
    /\ rRes' = ResolveId(rKeys, rPrefix)
    /\ UNCHANGED <<rKeys, rPrefix>>
    /\ UNCHANGED <<rtVars, logVars, attVars, sseVars, exRes>>

InitResolve ==
    /\ InitFresh
    /\ InitLogIdle
    /\ InitRestoreIdle
    /\ InitConnIdle
    /\ InitResizeIdle /\ InitInjectIdle /\ InitChatIdle
    /\ InitLinesIdle /\ InitCompactIdle /\ InitPressureIdle
    /\ rKeys \in SUBSET Uuids
    /\ rPrefix \in Strings(IdLen + 1)
    /\ rPc = "idle"
    /\ rRes = NoResolve

NextResolve == ResolveCall

SpecResolve == InitResolve /\ [][NextResolve]_vars

(***************************************************************************)
(* SpecResize: the resize endpoint (api.rs 114-129) on a running session   *)
(***************************************************************************)
\* Rows and cols of a request: the bounds and their neighbours.
Dims == {0, 1, MaxDim, MaxDim + 1}

\* resize_session with the request kept: the bounds first, then mgr.resize,
\* which sets the size of the PTY and the current-size cell.
ResizeRequest(id, rows, cols) ==
    /\ qRows' = rows
    /\ qCols' = cols
    /\ ret' = [Returns("resize", id, ResizeResult(id, rows, cols))
                 EXCEPT !.op = IF ValidSize(rows, cols) THEN "resize"
                               ELSE "resize_out_of_bounds"]
    /\ size' = IF ResizeResult(id, rows, cols) = "Ok" THEN <<rows, cols>> ELSE size
    /\ UNCHANGED <<sessions, meta, metaFile, sockFile, now, yolo_mode, spawnPc,
                   spawnRet, child, sigterms, supPc, waitRes, writerPc, inputQ,
                   lsnPc, readySent, callPc, callData, stopReturned>>
    /\ UNCHANGED <<logVars, attVars, sseVars, exRsz>>

InitResize ==
    /\ InitRunning
    /\ buffer = <<>> /\ max_lines = 1 /\ pushed = 0
    /\ InitLogIdle
    /\ InitExtIdle

NextResize ==
    \/ \E rows \in Dims, cols \in Dims : ResizeRequest(Sid, rows, cols)
    \/ \E id \in Ids : Stop(id)
    \/ ChildExit
    \/ ReaderStop
    \/ ReaperWait
    \/ ReaperUpdate

SpecResize == InitResize /\ [][NextResize]_vars

(***************************************************************************)
(* SpecReap: a running session up to the reaper's update, with the         *)
(* supervisor's task scheduled fairly                                      *)
(***************************************************************************)
InitReap ==
    /\ InitRunning
    /\ buffer = <<>> /\ max_lines = 1 /\ pushed = 0
    /\ InitLogIdle
    /\ InitExtIdle

NextReap ==
    \/ \E c \in Callers : SendInput(c, Sid)
    \/ \E c \in Callers : SendInputFinish(c)
    \/ WriterWrite
    \/ ReaderPush
    \/ \E id \in Ids : Stop(id)
    \/ ChildExit
    \/ ReaderStop
    \/ ReaperWait
    \/ ReaperUpdate

\* Once the child has exited the PTY read returns Ok(0) or an error (lines
\* 285, 294); child.wait() (line 301) and the lock acquisitions of lines
\* 304-306 return when they can; a send on a closed channel returns (line
\* 206).
SpecReap ==
    /\ InitReap /\ [][NextReap]_vars
    /\ WF_vars(child # "alive" /\ ReaderStop)
    /\ WF_vars(ReaperWait)
    /\ WF_vars(ReaperUpdate)
    /\ WF_vars(\E c \in Callers : SendInputFinish(c))

(***************************************************************************)
(* SpecPressure: send_input, the write task and the read loop of           *)
(* run_pty_io, with the locks they hold and a PTY whose buffers fill       *)
(***************************************************************************)
PtyCap == 1        \* chunks each buffer of the PTY holds
MaxOut == 3        \* chunks the child writes in one run

\* The chunks the child has written or is writing.
Written ==
    pushed + pOut + (IF rdPc = "read" THEN 0 ELSE 1)
        + (IF chPc = "writing" THEN 1 ELSE 0)

\* Write task, line 274: input_rx.recv().
PtyWriterTake ==
    /\ writerPc = "running"
    /\ ~wHas
    /\ inputQ # <<>>
    /\ inputQ' = Tail(inputQ)
    /\ wHas' = TRUE
    /\ UNCHANGED <<rdPc, pIn, pOut, chPc>>
    /\ UNCHANGED <<rtNoInput, writerPc, logVars, attVars, sseVars, exPrs>>

\* Write task, line 275: write_all returns once the PTY has taken the chunk;
\* it waits while the PTY's input buffer is full.
PtyWriterWrite ==
    /\ writerPc = "running"
    /\ wHas
    /\ pIn < PtyCap
    /\ pIn' = pIn + 1
    /\ wHas' = FALSE
    /\ UNCHANGED <<rdPc, pOut, chPc>>
    /\ UNCHANGED <<rtVars, logVars, attVars, sseVars, exPrs>>

\* The child reads its input.
ChildRead ==
    /\ child = "alive"
    /\ chPc = "run"
    /\ pIn > 0
    /\ pIn' = pIn - 1
    /\ UNCHANGED <<rdPc, wHas, pOut, chPc>>
    /\ UNCHANGED <<rtVars, logVars, attVars, sseVars, exPrs>>

\* The child starts a write to its output.
ChildWrite ==
    /\ child = "alive"
    /\ chPc = "run"
    /\ Written < MaxOut
    /\ chPc' = "writing"
    /\ UNCHANGED <<rdPc, wHas, pIn, pOut>>
    /\ UNCHANGED <<rtVars, logVars, attVars, sseVars, exPrs>>

\* The write returns once the PTY has taken the chunk; the child waits in it
\* while the PTY's output buffer is full.
ChildWriteDone ==
    /\ chPc = "writing"
    /\ pOut < PtyCap
    /\ pOut' = pOut + 1
    /\ chPc' = "run"
    /\ UNCHANGED <<rdPc, wHas, pIn>>
    /\ UNCHANGED <<rtVars, logVars, attVars, sseVars, exPrs>>

\* Read loop, lines 284-287: pty_reader.read returns Ok(n).
PtyReaderRead ==
    /\ supPc = "reading"
    /\ rdPc = "read"
    /\ pOut > 0
    /\ pOut' = pOut - 1
    /\ rdPc' = "locking"
    /\ UNCHANGED <<wHas, pIn, chPc>>
    /\ UNCHANGED <<rtVars, logVars, attVars, sseVars, exPrs>>

\* Read loop, lines 288-290: the registry's read guard, then the session's
\* write guard, which waits for the read guards of send_input.
PtyReaderLock ==
    /\ rdPc = "locking"
    /\ NoReader
    /\ rdPc' = "pushing"
    /\ UNCHANGED <<wHas, pIn, pOut, chPc>>
    /\ UNCHANGED <<rtVars, logVars, attVars, sseVars, exPrs>>

\* Read loop, lines 291-292: log.push, the append to the log file included
\* (log.rs 47-56), then both guards are dropped.
PtyReaderPush ==
    /\ rdPc = "pushing"
    /\ LogPush
    /\ rdPc' = "read"
    /\ UNCHANGED <<wHas, pIn, pOut, chPc>>
    /\ UNCHANGED <<rtVars, attVars, sseVars, exPrs>>

\* send_input, lines 196-208: session.read() waits while the read loop has
\* the write guard.
PtySendInput(c) ==
    /\ rdPc # "pushing"
    /\ SendInput(c, Sid)

\* Who holds a read guard of the registry: send_input from line 197 to its
\* return, the read loop from line 288 to line 292.
HoldsRegistry(p) ==
    IF p \in Callers THEN callPc[p] = "sending" ELSE rdPc = "pushing"

\* Who waits in input_tx.send(), line 203-205.
WaitsOnSend(p) == p \in Callers /\ callPc[p] = "sending"

\* Who is doing file I/O: the read loop inside log.push.
DoesFileIo(p) == p = "reader" /\ rdPc = "pushing"

InitPressure ==
    /\ InitRunning
    /\ buffer = <<>> /\ max_lines = 1 /\ pushed = 0
    /\ InitLogIdle
    /\ InitRestoreIdle /\ InitConnIdle /\ InitResolveIdle
    /\ InitResizeIdle /\ InitInjectIdle /\ InitChatIdle
    /\ InitLinesIdle /\ InitCompactIdle
    /\ rdPc = "read" /\ wHas = FALSE /\ pIn = 0 /\ pOut = 0 /\ chPc = "run"

NextPressure ==
    \/ \E c \in Callers : PtySendInput(c)
    \/ \E c \in Callers : SendInputFinish(c)
    \/ PtyWriterTake
    \/ PtyWriterWrite
    \/ ChildRead
    \/ ChildWrite
    \/ ChildWriteDone
    \/ PtyReaderRead
    \/ PtyReaderLock
    \/ PtyReaderPush

SpecPressure == InitPressure /\ [][NextPressure]_vars

(***************************************************************************)
(* SpecInject: the argument vector of spawn (manager.rs 95-104, 116, 132)  *)
(***************************************************************************)
MaxArgs == 3       \* extra_args a caller gives

\* Arguments of a caller: the two permission-skip flags and another one.
ArgWords == {"--dangerously-skip-permissions", "--yolo", "-v"}
ArgVectors == UNION {[1..n -> ArgWords] : n \in 0..MaxArgs}

\* spawn, lines 95-104: extra_args as given to the child (line 116) and moved
\* into the meta (line 132).
SpawnArgs ==
    /\ jPc = "idle"
    /\ jPc' = "done"
    /\ jOut' = InjectYolo(yolo_mode, jTool, jArgs)
    /\ UNCHANGED <<jTool, jArgs>>
    /\ UNCHANGED <<rtVars, logVars, attVars, sseVars, exInj>>

InitInject ==
    /\ InitFresh
    /\ InitLogIdle
    /\ InitRestoreIdle /\ InitConnIdle /\ InitResolveIdle /\ InitResizeIdle
    /\ InitChatIdle /\ InitLinesIdle /\ InitCompactIdle /\ InitPressureIdle
    /\ jTool \in {Claude, Codex}
    /\ jArgs \in ArgVectors
    /\ jPc = "idle"
    /\ jOut = <<>>

NextInject == SpawnArgs

SpecInject == InitInject /\ [][NextInject]_vars

(***************************************************************************)
(* Transcript parser: parse_snapshot, derive_state and ChatParser          *)
(* (chat.rs 97-589)                                                        *)
(*                                                                         *)
(* A line of the transcript that parses is a JSON value; the model keeps   *)
(* of it the fields the parser reads.  A text is kept by its tags and the  *)
(* string inside them; timestamps are copied through and left out.         *)
(***************************************************************************)
MAX_CHAT_MESSAGES == 2   \* messages kept in a snapshot (400 in the program)
MaxPushed == 3           \* messages pushed in one run of SpecChat

NoPending == [some |-> FALSE, tool_use_id |-> <<>>]
Pending(id) == [some |-> TRUE, tool_use_id |-> id]

NoPlan == [some |-> FALSE, source |-> ""]
Plan(source) == [some |-> TRUE, source |-> source]

\* parse_snapshot, lines 102-110: the parser before the first line.
NewParser ==
    [permission_mode |-> "default", view_mode |-> "default", messages |-> <<>>,
     pending_question |-> NoPending, plan |-> NoPlan, progress_hint |-> None,
     last_event_type |-> None,
     pushed |-> 0]          \* history: calls of push_message so far

\* ---- texts ----
CaveatTag  == "local-command-caveat"
CommandTag == "command-name"
StdoutTag  == "local-command-stdout"

Text(tags, inner) == [tags |-> tags, inner |-> inner]
NoText == Text({}, "")

OptionsText == "Choose an option:\n1. Continue\n2. Stop"
PlanListText == "Plan:\n- Read code\n- Edit files"
AnsiDisabled == "\\e[1mDisabled plan mode\\e[0m"

\* str::trim on the strings of the model.
Trim(str) == IF str = " " THEN "" ELSE str

\* strip_ansi, lines 879-918, on the strings of the model.
StripAnsi(str) == IF str = AnsiDisabled THEN "Disabled plan mode" ELSE str

\* compact_string, lines 943-950, on a string below the limit.
CompactShort(str) == Trim(str)

\* The text as its string: what is around the tags is left out.
Raw(text) == IF text.tags = {} THEN Trim(text.inner) ELSE text.inner

\* extract_tag_content, lines 870-877.
HasTag(text, tag) == tag \in text.tags

\* extract_plan_items(text).len() >= 2, line 527.
HasPlanItems(str) == str = PlanListText

\* parse_local_command_options, lines 669-715: two numbered options or more
\* under a line that looks like a prompt.
ParseLocalCommandOptions(cleaned, uuid) ==
    IF cleaned = OptionsText THEN Pending(<<"localcmd-", uuid>>) ELSE NoPending

\* str::starts_with("localcmd-"), line 445.
IsLocalCmdId(id) == Len(id) >= 1 /\ id[1] = "localcmd-"

\* A faulty variant of NormalizeViewMode: no mode gives yolo.
NormalizeViewModePlanOnly(mode) == IF mode = "plan" THEN "plan" ELSE "default"

\* normalize_view_mode, lines 952-958.
NormalizeViewMode(mode) ==
    CASE mode = "plan" -> "plan"
      [] mode \in {"bypassPermissions", "acceptEdits"} -> "yolo"
      [] OTHER -> "default"

\* ---- events ----
NoField == <<"absent">>      \* a tool_use_id that is not in the item

Block(type, text, name, id, questions, plan) ==
    [type |-> type, text |-> text, name |-> name, id |-> id,
     questions |-> questions, plan |-> plan]
TextBlock(str)     == Block("text", str, "", <<>>, 0, FALSE)
ThinkingBlock(str) == Block("thinking", str, "", <<>>, 0, FALSE)
\* questions: the length of input.questions, 0 also when it is no array.
ToolUse(name, id, questions, plan) == Block("tool_use", "", name, id, questions, plan)

Item(type, text, tool_use_id, content, is_error) ==
    [type |-> type, text |-> text, tool_use_id |-> tool_use_id,
     content |-> content, is_error |-> is_error]
TextItem(text) == Item("text", text, NoField, "", FALSE)
ToolResult(id, content, is_error) == Item("tool_result", NoText, id, content, is_error)

NoContent     == [form |-> "none", str |-> NoText, items |-> <<>>]
StrContent(t) == [form |-> "str", str |-> t, items |-> <<>>]
Array(items)  == [form |-> "array", str |-> NoText, items |-> items]

Event(type, uuid, content) ==
    [type |-> type, uuid |-> uuid, permissionMode |-> None, planContent |-> None,
     content |-> content, data |-> "none", toolUseResult |-> "none"]

\* ---- ChatParser ----
\* push_message, lines 565-588.
PushMessage(P, uuid, role, kind, text, tool_name, is_error) ==
    [P EXCEPT !.messages =
                  Append(@, [id |-> IF uuid = ""
                                    THEN [uuid |-> "msg-", n |-> Len(P.messages) + 1]
                                    ELSE [uuid |-> uuid, n |-> 0],
                             role |-> role, kind |-> kind, text |-> text,
                             tool_name |-> tool_name, is_error |-> is_error,
                             n |-> P.pushed + 1]),
              !.pushed = @ + 1]

\* capture_plan, lines 536-546.
CapturePlan(P, source) == [P EXCEPT !.plan = Plan(source)]

\* capture_plan_from_text, lines 525-534.
CapturePlanFromText(P, str) ==
    IF HasPlanItems(str) THEN [P EXCEPT !.plan = Plan("assistant_text")] ELSE P

\* capture_plan_from_tool_use_result, lines 548-562.
CapturePlanFromToolUseResult(P, e) ==
    IF e.toolUseResult = "plan_file" THEN CapturePlan(P, "toolUseResult") ELSE P

\* consume_assistant, lines 269-323: a tool_use block.
ConsumeToolUse(P, e, b) ==
    LET P1 == CASE b.name = "AskUserQuestion" /\ b.questions > 0 ->
                     PushMessage([P EXCEPT !.pending_question = Pending(b.id)],
                                 e.uuid, "assistant", "ask_user_question",
                                 "Claude is asking for your input", b.name, FALSE)
                [] b.name = "EnterPlanMode" ->
                     [P EXCEPT !.permission_mode = "plan", !.view_mode = "plan"]
                [] b.name = "ExitPlanMode" ->
                     LET P0 == [P EXCEPT !.view_mode =
                                            NormalizeViewMode(P.permission_mode)]
                     IN  IF b.plan THEN CapturePlan(P0, "ExitPlanMode") ELSE P0
                [] OTHER -> P
    IN  PushMessage(P1, e.uuid, "tool", "tool_use", "Using " \o b.name,
                    b.name, FALSE)

\* consume_assistant, lines 228-326: one block.
ConsumeBlock(P, e, b) ==
    CASE b.type = "text" ->
           IF CompactShort(b.text) # ""
           THEN CapturePlanFromText(
                    PushMessage(P, e.uuid, "assistant", "text",
                                CompactShort(b.text), None, FALSE),
                    CompactShort(b.text))
           ELSE P
      [] b.type = "thinking" ->
           IF CompactShort(b.text) # ""
           THEN PushMessage(P, e.uuid, "assistant", "thinking",
                            CompactShort(b.text), None, FALSE)
           ELSE P
      [] b.type = "tool_use" -> ConsumeToolUse(P, e, b)
      [] OTHER -> P

RECURSIVE ConsumeBlocks(_, _, _)
ConsumeBlocks(P, e, blocks) ==
    IF blocks = <<>> THEN P
    ELSE ConsumeBlocks(ConsumeBlock(P, e, Head(blocks)), e, Tail(blocks))

\* consume_assistant, lines 217-327.
ConsumeAssistant(P, e) ==
    LET P0 == [P EXCEPT !.progress_hint = None]
    IN  IF e.content.form = "array" THEN ConsumeBlocks(P0, e, e.content.items)
        ELSE P0

\* A faulty variant of ConsumeLocalCommandMarkup: a caveat is not consumed.
ConsumeLocalCommandMarkupKeepsCaveat(P, e, text) ==
    IF HasTag(text, StdoutTag) /\ ~HasTag(text, CaveatTag) /\ ~HasTag(text, CommandTag)
    THEN [consumed |-> TRUE,
          P |-> PushMessage(P, e.uuid, "system", "local_command",
                            CompactShort(Trim(StripAnsi(text.inner))), None, FALSE)]
    ELSE [consumed |-> HasTag(text, CommandTag), P |-> P]

\* consume_local_command_markup, lines 469-523: the parser after it, and
\* whether the text was consumed.
ConsumeLocalCommandMarkup(P, e, text) ==
    LET cleaned == CompactShort(Trim(StripAnsi(text.inner)))
        P1 == CASE cleaned = "Enabled plan mode" ->
                     [P EXCEPT !.permission_mode = "plan", !.view_mode = "plan"]
                [] cleaned = "Disabled plan mode" ->
                     [P EXCEPT !.permission_mode = "default",
                               !.view_mode = "default"]
                [] OTHER -> P
        P2 == IF ParseLocalCommandOptions(cleaned, e.uuid).some
              THEN [P1 EXCEPT !.pending_question =
                                  ParseLocalCommandOptions(cleaned, e.uuid)]
              ELSE P1
    IN  CASE HasTag(text, CaveatTag)  -> [consumed |-> TRUE, P |-> P]
          [] HasTag(text, CommandTag) -> [consumed |-> TRUE, P |-> P]
          [] ~HasTag(text, StdoutTag) -> [consumed |-> FALSE, P |-> P]
          [] cleaned = ""             -> [consumed |-> TRUE, P |-> P]
          [] OTHER ->
               [consumed |-> TRUE,
                P |-> PushMessage(P2, e.uuid, "system", "local_command", cleaned,
                                  None, FALSE)]

\* consume_user_text, lines 434-467.
ConsumeUserText(P, e, text) ==
    LET markup == ConsumeLocalCommandMarkup(P, e, text)
        P1 == IF P.pending_question.some
                 /\ IsLocalCmdId(P.pending_question.tool_use_id)
              THEN [P EXCEPT !.pending_question = NoPending]
              ELSE P
    IN  IF Raw(text) = "" THEN P
        ELSE IF markup.consumed THEN markup.P
        ELSE IF CompactShort(Raw(text)) = "" THEN P1
        ELSE PushMessage(P1, e.uuid, "user", "text", CompactShort(Raw(text)),
                         None, FALSE)

\* A faulty variant of ConsumeToolResult: the result of any tool clears the
\* pending question.
ConsumeToolResultAnyId(P, e, item) ==
    PushMessage([P EXCEPT !.pending_question = NoPending],
                e.uuid, "tool", "tool_result",
                IF CompactShort(item.content) = ""
                THEN IF item.is_error THEN "Tool call was rejected"
                     ELSE "Tool call completed"
                ELSE CompactShort(item.content),
                None, item.is_error)

\* consume_user, lines 357-391: a tool_result item.
ConsumeToolResult(P, e, item) ==
    LET P1 == IF /\ item.tool_use_id # NoField
                 /\ P.pending_question.some
                 /\ P.pending_question.tool_use_id = item.tool_use_id
              THEN [P EXCEPT !.pending_question = NoPending]
              ELSE P
    IN  PushMessage(P1, e.uuid, "tool", "tool_result",
                    IF CompactShort(item.content) = ""
                    THEN IF item.is_error THEN "Tool call was rejected"
                         ELSE "Tool call completed"
                    ELSE CompactShort(item.content),
                    None, item.is_error)

ConsumeItem(P, e, item) ==
    CASE item.type = "text"        -> ConsumeUserText(P, e, item.text)
      [] item.type = "tool_result" -> ConsumeToolResult(P, e, item)
      [] OTHER                     -> P

RECURSIVE ConsumeItems(_, _, _)
ConsumeItems(P, e, items) ==
    IF items = <<>> THEN P
    ELSE ConsumeItems(ConsumeItem(P, e, Head(items)), e, Tail(items))

\* consume_user, lines 329-397.
ConsumeUser(P, e) ==
    LET P0 == [P EXCEPT !.progress_hint = None]
    IN  CASE e.content.form = "str"   -> ConsumeUserText(P0, e, e.content.str)
          [] e.content.form = "array" ->
               CapturePlanFromToolUseResult(ConsumeItems(P0, e, e.content.items), e)
          [] OTHER -> P0

\* consume_system, lines 399-404.
ConsumeSystem(P, e) ==
    IF e.permissionMode # None
    THEN [P EXCEPT !.permission_mode = e.permissionMode,
                   !.view_mode = NormalizeViewMode(e.permissionMode)]
    ELSE P

\* consume_progress, lines 406-432: whether the event names a tool, i.e. its
\* data are of type agent_progress and their first content block a tool_use.
SetsHint(e) == e.type = "progress" /\ e.data = "agent_progress_tool_use"

ConsumeProgress(P, e) ==
    IF SetsHint(e) THEN [P EXCEPT !.progress_hint = "Running Bash"] ELSE P

\* A faulty variant of Drain: the newest messages are dropped.
DrainTail(msgs) ==
    IF Len(msgs) > MAX_CHAT_MESSAGES THEN SubSeq(msgs, 1, MAX_CHAT_MESSAGES)
    ELSE msgs

\* consume, lines 211-214: drop from the head what is over the cap.
Drain(msgs) ==
    IF Len(msgs) > MAX_CHAT_MESSAGES
    THEN SubSeq(msgs, Len(msgs) - MAX_CHAT_MESSAGES + 1, Len(msgs))
    ELSE msgs

\* consume, lines 182-215.
Consume(P, e) ==
    LET P1 == IF e.planContent # None THEN CapturePlan(P, "planContent") ELSE P
        P2 == IF e.permissionMode # None
              THEN [P1 EXCEPT !.permission_mode = e.permissionMode,
                              !.view_mode = NormalizeViewMode(e.permissionMode)]
              ELSE P1
        P3 == CASE e.type = "assistant" -> ConsumeAssistant(P2, e)
                [] e.type = "user"      -> ConsumeUser(P2, e)
                [] e.type = "progress"  -> ConsumeProgress(P2, e)
                [] e.type = "system"    -> ConsumeSystem(P2, e)
                [] OTHER                -> P2
    IN  [P3 EXCEPT !.last_event_type = e.type, !.messages = Drain(@)]

\* SessionStatus's Display in "Session {status}".
StatusLabel(status) == "Session " \o status

\* A faulty variant of DeriveState: a pending question comes first.
DeriveStatePendingFirst(status, P) ==
    IF P.pending_question.some
    THEN <<"awaiting_input", "Waiting for your answer">>
    ELSE IF status # Running THEN <<"stopped", StatusLabel(status)>>
    ELSE <<"idle", "Ready">>

\* derive_state, lines 140-169.
DeriveState(status, P) ==
    IF status # Running THEN <<"stopped", StatusLabel(status)>>
    ELSE IF P.pending_question.some
    THEN <<"awaiting_input", "Waiting for your answer">>
    ELSE IF P.last_event_type = "progress" /\ P.progress_hint # None
    THEN <<"working", P.progress_hint>>
    ELSE IF P.messages # <<>> /\ P.messages[Len(P.messages)].role = "user"
    THEN <<"thinking", "Claude is thinking">>
    ELSE IF P.messages # <<>> /\ P.messages[Len(P.messages)].kind = "thinking"
    THEN <<"thinking", "Claude is reasoning">>
    ELSE <<"idle", "Ready">>

(***************************************************************************)
(* SpecChat: a transcript consumed event by event                          *)
(***************************************************************************)
AskIds == {<<"t1">>, <<"t2">>}

UserTexts ==
    {Text({}, " "), Text({}, "hello"),
     Text({CaveatTag}, "Caveat"), Text({CommandTag}, "/plan"),
     Text({StdoutTag}, "Enabled plan mode"), Text({StdoutTag}, AnsiDisabled),
     Text({StdoutTag}, OptionsText)}

AssistantBlocks ==
    {TextBlock("hi"), ThinkingBlock("hm"),
     ToolUse("EnterPlanMode", <<"t3">>, 0, FALSE),
     ToolUse("ExitPlanMode", <<"t3">>, 0, TRUE)}
        \cup {ToolUse("AskUserQuestion", id, 1, FALSE) : id \in AskIds}

UserEvents ==
    {Event("user", "", StrContent(t)) : t \in UserTexts}
        \cup {Event("user", "", Array(<<ToolResult(id, "", FALSE)>>)) : id \in AskIds}
        \cup {[Event("user", "u1", Array(<<TextItem(Text({}, "hello")),
                                           ToolResult(<<"t3">>, "", TRUE)>>))
                  EXCEPT !.toolUseResult = "plan_file"]}

AssistantEvents ==
    {Event("assistant", "", Array(<<b>>)) : b \in AssistantBlocks}
        \cup {Event("assistant", "u1",
                    Array(<<TextBlock("hi"),
                            ToolUse("AskUserQuestion", <<"t1">>, 1, FALSE),
                            ThinkingBlock("hm")>>))}

ProgressEvents ==
    {[Event("progress", "", NoContent) EXCEPT !.data = d] :
        d \in {"agent_progress_tool_use", "other"}}

SystemEvents ==
    {[Event("system", "", NoContent) EXCEPT !.permissionMode = m] :
        m \in {"bypassPermissions"}}

\* Lines of another type, or of none (a JSON value that is no object is one).
OtherEvents ==
    {[Event("", "", NoContent) EXCEPT !.planContent = "plan"]}

ChatEvents ==
    UserEvents \cup AssistantEvents \cup ProgressEvents \cup SystemEvents
        \cup OtherEvents

NoEvent == Event("none", "", NoContent)

\* parse_snapshot, lines 113-122, on a transcript one line longer: the
\* parser consumes the event of the new line.
ConsumeEvent(e) ==
    /\ parser.pushed < MaxPushed
    /\ parser' = Consume(parser, e)
    /\ cEvent' = e
    /\ hintFresh' = IF e.type # "progress" THEN FALSE
                    ELSE (hintFresh \/ SetsHint(e))
    /\ UNCHANGED cStatus
    /\ UNCHANGED <<rtVars, logVars, attVars, sseVars, exChat>>

\* parse_snapshot, line 125: the state and the label of the snapshot.
SnapshotState == DeriveState(cStatus, parser)

InitChat ==
    /\ InitFresh
    /\ InitLogIdle
    /\ InitRestoreIdle /\ InitConnIdle /\ InitResolveIdle
    /\ InitResizeIdle /\ InitInjectIdle
    /\ InitLinesIdle /\ InitCompactIdle /\ InitPressureIdle
    /\ parser = NewParser
    /\ cStatus \in {Running, Stopped}
    /\ cEvent = NoEvent
    /\ hintFresh = FALSE

NextChat == \E e \in ChatEvents : ConsumeEvent(e)

SpecChat == InitChat /\ [][NextChat]_vars

(***************************************************************************)
(* SpecIds: a transcript long enough for the head of the list to be        *)
(* dropped and for messages to be pushed after that                        *)
(***************************************************************************)
MaxIdPushed == 4

IdEvents ==
    {Event("user", "", StrContent(Text({}, "hello"))),
     Event("assistant", "", Array(<<TextBlock("hi")>>)),
     Event("assistant", "", Array(<<ThinkingBlock("hm"), TextBlock("hi")>>)),
     Event("assistant", "u1", Array(<<TextBlock("hi")>>)),
     [Event("progress", "", NoContent) EXCEPT !.data = "agent_progress_tool_use"]}

\* parse_snapshot, lines 113-122, on a transcript one line longer.
ConsumeLine(e) ==
    /\ parser.pushed < MaxIdPushed
    /\ parser' = Consume(parser, e)
    /\ cEvent' = e
    /\ hintFresh' = IF e.type # "progress" THEN FALSE
                    ELSE (hintFresh \/ SetsHint(e))
    /\ UNCHANGED cStatus
    /\ UNCHANGED <<rtVars, logVars, attVars, sseVars, exChat>>

NextIds == \E e \in IdEvents : ConsumeLine(e)

SpecIds == InitChat /\ [][NextIds]_vars

(***************************************************************************)
(* SpecLines: parse_snapshot on a whole transcript                         *)
(***************************************************************************)
MaxTranscript == 3

\* A line of the transcript, by what lines 114-120 make of it: "empty" (no
\* character), "blank" (whitespace only), "malformed" (serde_json::from_str
\* fails) or "json" (a JSON value, consumed as the event it is).
Line(kind, event) == [kind |-> kind, event |-> event]
EmptyLine     == Line("empty", NoEvent)
BlankLine     == Line("blank", NoEvent)
MalformedLine == Line("malformed", NoEvent)
JsonLine(e)   == Line("json", e)

LineEvents ==
    {Event("user", "", StrContent(Text({}, "hello"))),
     Event("assistant", "", Array(<<ToolUse("AskUserQuestion", <<"t1">>, 1, FALSE)>>)),
     Event("user", "", Array(<<ToolResult(<<"t1">>, "", FALSE)>>)),
     [Event("progress", "", NoContent) EXCEPT !.data = "agent_progress_tool_use"],
     Event("", "", NoContent)}

Lines == {EmptyLine, BlankLine, MalformedLine} \cup {JsonLine(e) : e \in LineEvents}

\* A faulty variant of ParseLines: the first line that is no JSON ends the
\* parsing.
RECURSIVE ParseLinesAbort(_, _)
ParseLinesAbort(lines, P) ==
    IF lines = <<>> THEN P
    ELSE IF Head(lines).kind # "json" THEN P
    ELSE ParseLinesAbort(Tail(lines), Consume(P, Head(lines).event))

\* The loop of parse_snapshot, lines 113-122.
RECURSIVE ParseLines(_, _)
ParseLines(lines, P) ==
    IF lines = <<>> THEN P
    ELSE IF Head(lines).kind \in {"empty", "blank"}      \* line 114
    THEN ParseLines(Tail(lines), P)
    ELSE IF Head(lines).kind = "malformed"               \* line 119
    THEN ParseLines(Tail(lines), P)
    ELSE ParseLines(Tail(lines), Consume(P, Head(lines).event))

\* The ChatSnapshot of lines 125-137 (transcript_path is left out).
SnapshotOf(status, available, P) ==
    [available |-> available,
     permission_mode |-> P.permission_mode, view_mode |-> P.view_mode,
     state |-> DeriveState(status, P)[1],
     status_label |-> DeriveState(status, P)[2],
     messages |-> P.messages, pending_question |-> P.pending_question,
     plan |-> P.plan]

\* A faulty variant of ParseSnapshot, with the loop that aborts.
ParseSnapshotAbort(status, available, lines) ==
    SnapshotOf(status, available, ParseLinesAbort(lines, NewParser))

\* parse_snapshot, lines 97-138; content = None is available = FALSE and no
\* line.
ParseSnapshot(status, available, lines) ==
    SnapshotOf(status, available, ParseLines(lines, NewParser))

\* The transcript file grows by one line.
WriteLine(l) ==
    /\ tPc = "writing"
    /\ transcript.available
    /\ Len(transcript.lines) < MaxTranscript
    /\ transcript' = [transcript EXCEPT !.lines = Append(@, l)]
    /\ UNCHANGED <<tPc, snapshot, terminal>>
    /\ UNCHANGED <<rtVars, logVars, attVars, sseVars, exLine>>

ParseSnapshotCall ==
    /\ tPc = "writing"
    /\ tPc' = "done"
    /\ snapshot' = ParseSnapshot(transcript.status, transcript.available,
                                 transcript.lines)
    /\ UNCHANGED <<transcript, terminal>>
    /\ UNCHANGED <<rtVars, logVars, attVars, sseVars, exLine>>

InitLines ==
    /\ InitFresh
    /\ InitLogIdle
    /\ InitRestoreIdle /\ InitConnIdle /\ InitResolveIdle
    /\ InitResizeIdle /\ InitInjectIdle /\ InitChatIdle /\ InitCompactIdle
    /\ InitPressureIdle
    /\ transcript \in [status : {Running, Stopped}, available : BOOLEAN,
                       lines : {<<>>}]
    /\ tPc = "writing"
    /\ snapshot = <<>>
    /\ terminal = <<>>

NextLines ==
    \/ \E l \in Lines : WriteLine(l)
    \/ ParseSnapshotCall

SpecLines == InitLines /\ [][NextLines]_vars

(***************************************************************************)
(* SpecAugment: augment_snapshot_from_terminal_output on the snapshot of   *)
(* a transcript                                                            *)
(***************************************************************************)
MaxTermLines == 3
MenuWindow == 12
QuestionWindow == 8

\* A line of the normalized terminal output, by what lines 745-839 make of
\* it: kind "blank" (empty once compacted), "menu" (parse_numbered_menu_line
\* gives its number and a label) or "text"; q: the line has a question mark
\* or one of the two phrases of lines 788-790.
TermLine(kind, num, q) == [kind |-> kind, num |-> num, q |-> q]

TermLines ==
    {TermLine("blank", 0, FALSE), TermLine("text", 0, FALSE),
     TermLine("text", 0, TRUE), TermLine("menu", 1, FALSE),
     TermLine("menu", 2, FALSE), TermLine("menu", 1, TRUE)}

TerminalChoice == <<"terminal-choice">>

\* parse_terminal_choice_prompt, lines 745-810.
ParseTerminalChoicePrompt(output) ==
    LET lines  == SelectSeq(output, LAMBDA l : l.kind # "blank")
        ones   == {i \in 1..Len(lines) :
                      lines[i].kind = "menu" /\ lines[i].num = 1}
        start  == CHOOSE i \in ones : \A j \in ones : j <= i
        end    == Min(Len(lines), start + MenuWindow - 1)
        nums   == {lines[i].num : i \in {k \in start..end : lines[k].kind = "menu"}}
        first  == Max(1, start - QuestionWindow)
        parts  == {i \in first..start : lines[i].q}
    IN  IF lines = <<>> \/ ones = {} THEN NoPending
        ELSE IF Cardinality(nums) < 2 THEN NoPending
        ELSE IF parts = {} THEN NoPending
        ELSE Pending(TerminalChoice)

\* A faulty variant of the augmentation: the question of the transcript
\* gives way to a prompt of the terminal.
AugmentOverwrites(snap, output) ==
    IF ParseTerminalChoicePrompt(output).some
    THEN [snap EXCEPT !.pending_question = ParseTerminalChoicePrompt(output)]
    ELSE snap

\* augment_snapshot_from_terminal_output, lines 591-609.
AugmentSnapshotFromTerminalOutput(snap, output) ==
    IF snap.pending_question.some THEN snap
    ELSE IF output = <<>> THEN snap
    ELSE IF ParseTerminalChoicePrompt(output).some
    THEN [snap EXCEPT !.pending_question = ParseTerminalChoicePrompt(output)]
    ELSE snap

\* The terminal output grows by one line.
TerminalLine(l) ==
    /\ tPc = "done"
    /\ Len(terminal) < MaxTermLines
    /\ terminal' = Append(terminal, l)
    /\ UNCHANGED <<transcript, tPc, snapshot>>
    /\ UNCHANGED <<rtVars, logVars, attVars, sseVars, exLine>>

AugmentCall ==
    /\ tPc = "done"
    /\ tPc' = "augmented"
    /\ snapshot' = AugmentSnapshotFromTerminalOutput(snapshot, terminal)
    /\ UNCHANGED <<transcript, terminal>>
    /\ UNCHANGED <<rtVars, logVars, attVars, sseVars, exLine>>

AugmentTranscripts ==
    {<<>>, <<JsonLine(Event("user", "", StrContent(Text({}, "hello"))))>>,
     <<JsonLine(Event("assistant", "",
                      Array(<<ToolUse("AskUserQuestion", <<"t1">>, 1, FALSE)>>)))>>,
     <<JsonLine([Event("progress", "", NoContent)
                    EXCEPT !.data = "agent_progress_tool_use"])>>}

InitAugment ==
    /\ InitFresh
    /\ InitLogIdle
    /\ InitRestoreIdle /\ InitConnIdle /\ InitResolveIdle
    /\ InitResizeIdle /\ InitInjectIdle /\ InitChatIdle /\ InitCompactIdle
    /\ InitPressureIdle
    /\ transcript \in [status : {Running, Stopped}, available : {TRUE},
                       lines : AugmentTranscripts]
    /\ tPc = "writing"
    /\ snapshot = <<>>
    /\ terminal = <<>>

NextAugment ==
    \/ ParseSnapshotCall
    \/ \E l \in TermLines : TerminalLine(l)
    \/ AugmentCall

SpecAugment == InitAugment /\ [][NextAugment]_vars

(***************************************************************************)
(* SpecCompact: compact_string on a text of the transcript                 *)
(***************************************************************************)
\* MAX_TEXT_LEN, line 9, is 6000 bytes in the program; the model scales it.
MAX_TEXT_LEN == 3
MaxText == 5

\* The characters of a text: an ASCII letter, a space, and a character of
\* two bytes in UTF-8.
TextChars == {"a", " ", "e'"}
Ellipsis == "..."           \* U+2026, three bytes in UTF-8

\* char::len_utf8.
LenUtf8(c) == CASE c = "e'" -> 2 [] c = Ellipsis -> 3 [] OTHER -> 1

\* str::len: the length in bytes.
RECURSIVE ByteLen(_)
ByteLen(str) == IF str = <<>> THEN 0 ELSE LenUtf8(Head(str)) + ByteLen(Tail(str))

\* str::trim.
RECURSIVE TrimStart(_)
TrimStart(str) ==
    IF str # <<>> /\ Head(str) = " " THEN TrimStart(Tail(str)) ELSE str

RECURSIVE TrimEnd(_)
TrimEnd(str) ==
    IF str # <<>> /\ str[Len(str)] = " "
    THEN TrimEnd(SubSeq(str, 1, Len(str) - 1)) ELSE str

TrimChars(str) == TrimEnd(TrimStart(str))

\* str::is_char_boundary: a character starts at byte n, or n is the length.
IsCharBoundary(str, n) ==
    \E k \in 0..Len(str) : ByteLen(SubSeq(str, 1, k)) = n

\* The characters within the first n bytes, n a boundary.
Prefix(str, n) ==
    SubSeq(str, 1, CHOOSE k \in 0..Len(str) : ByteLen(SubSeq(str, 1, k)) = n)

Returned(str) == [panic |-> FALSE, s |-> str]
Panicked      == [panic |-> TRUE, s |-> <<>>]

\* compact_string, lines 943-950. String::truncate panics when new_len is
\* not on a char boundary.
CompactString(input) ==
    LET s == TrimChars(input)
    IN  IF ByteLen(s) > MAX_TEXT_LEN
        THEN IF IsCharBoundary(s, MAX_TEXT_LEN)
             THEN Returned(Append(Prefix(s, MAX_TEXT_LEN), Ellipsis))
             ELSE Panicked
        ELSE Returned(s)

\* The text of a user event gets one character longer.
TypeChar(c) ==
    /\ zPc = "typing"
    /\ Len(zIn) < MaxText
    /\ zIn' = Append(zIn, c)
    /\ UNCHANGED <<zPc, zOut>>
    /\ UNCHANGED <<rtVars, logVars, attVars, sseVars, exCmp>>

\* parse_snapshot on the line of that event: consume_user_text calls
\* compact_string on the text, line 450; nothing catches a panic.
CompactCall ==
    /\ zPc = "typing"
    /\ zPc' = "done"
    /\ zOut' = CompactString(zIn)
    /\ UNCHANGED zIn
    /\ UNCHANGED <<rtVars, logVars, attVars, sseVars, exCmp>>

\* "Using ", line 318, at the scale of the model: one letter and the space.
UsingPrefix == <<"a", " ">>

\* format!("Using {tool_name}"), line 318.
ToolUseText(name) == UsingPrefix \o name

\* parse_snapshot on the line of an assistant event with a tool_use block of
\* that name: the text of the message pushed at lines 311-322.
ToolUseCall ==
    /\ zPc = "typing"
    /\ zPc' = "named"
    /\ zOut' = Returned(ToolUseText(zIn))
    /\ UNCHANGED zIn
    /\ UNCHANGED <<rtVars, logVars, attVars, sseVars, exCmp>>

InitCompact ==
    /\ InitFresh
    /\ InitLogIdle
    /\ InitRestoreIdle /\ InitConnIdle /\ InitResolveIdle
    /\ InitResizeIdle /\ InitInjectIdle /\ InitChatIdle /\ InitLinesIdle
    /\ InitPressureIdle
    /\ zIn = <<>>
    /\ zPc = "typing"
    /\ zOut = Returned(<<>>)

NextCompact ==
    \/ \E c \in TextChars : TypeChar(c)
    \/ CompactCall
    \/ ToolUseCall

SpecCompact == InitCompact /\ [][NextCompact]_vars

(***************************************************************************)
(* Properties                                                              *)
(***************************************************************************)
Range(q) == {q[i] : i \in 1..Len(q)}
Nums(q)  == [i \in 1..Len(q) |-> q[i].n]
IsSnapRec(r) == r.src = "snapshot"
IsLiveRec(r) == r.src = "live"
IsLogEv(ev)  == ev.t = "log"

\* The entries from+1 .. from+k, in push order.
Run(from, k) == [i \in 1..k |-> from + i]

MutatingOps == {"send_input", "stop", "resize", "resize_out_of_bounds"}

\* C1, as claimed: every send_input, resize or stop on the session that is
\* called after stop(id) returned Ok returns SessionAlreadyStopped.
C1_Original ==
    (ret.afterStop /\ ret.op \in MutatingOps) => ret.res = "SessionAlreadyStopped"

\* C1, amended: after stop(id) returned Ok, every send_input, every stop and
\* every resize request within the bounds returns SessionAlreadyStopped; a
\* resize request out of bounds is rejected for its bounds.
C1_AfterStop ==
    ret.afterStop =>
        /\ ret.op \in {"send_input", "stop", "resize"}
              => ret.res = "SessionAlreadyStopped"
        /\ ret.op = "resize_out_of_bounds" => ret.res = "InvalidSize"

\* A send_input that is called after the stop and after the reaper has run.
C1_Witness ==
    /\ ret.afterStop
    /\ ret.op = "send_input"
    /\ ret.res = "SessionAlreadyStopped"
    /\ supPc = "done"

\* C2, as claimed: whatever get(id) returns has a pid exactly when its status
\* is Running.
C2_PidIffRunning ==
    Sid \in sessions => (Get(Sid).pid # None <=> Get(Sid).status = Running)

\* C3: a status that is Stopped or Errored never changes again.
C3_TerminalStays ==
    [][meta.status \in Terminal => meta'.status = meta.status]_vars

\* The session was stopped, its child then exited with a non-zero status and
\* was reaped: the status is still Stopped.
C3_Witness ==
    /\ stopReturned
    /\ supPc = "done"
    /\ waitRes = "nonzero"
    /\ meta.status = Stopped

LastPushed(n, k) == Run(n - Min(n, k), Min(n, k))

\* C5, as claimed: after n pushes the snapshot is the last min(n, max_lines)
\* entries, oldest first, for every capacity.
C5_LastEntries == Snapshot = LastPushed(pushed, max_lines)

AttachLive == Nums(SelectSeq(aOut, IsLiveRec))
AttachSnap == Nums(SelectSeq(aOut, IsSnapRec))
SseLive    == Nums(SelectSeq(SubSeq(eOut, 2 + Len(eSnap), Len(eOut)), IsLogEv))

SameOrder(p, q) ==
    \A i, j \in 1..Len(p) : \A k, l \in 1..Len(q) :
        (p[i] = q[k] /\ p[j] = q[l]) => (i < j <=> k < l)

\* C6: a subscriber that never received Lagged has observed exactly the
\* entries pushed after its subscribe, each once and in push order, so two
\* such subscribers agree on the order of the entries both have observed.
C6_SubscriberOrder ==
    /\ ~aLagged => /\ AttachLive = Run(aSubAt, Len(AttachLive))
                   /\ aPc = "live" => Len(AttachLive) = aNext - aSubAt
    /\ ~eLagged => /\ SseLive = Run(eSubAt, Len(SseLive))
                   /\ ePc = "live" => Len(SseLive) = eNext - eSubAt
    /\ (~aLagged /\ ~eLagged) => SameOrder(AttachLive, SseLive)

\* Two subscribers that subscribed at different times, neither lagged, have
\* two entries in common.
C6_Witness ==
    /\ ~aLagged /\ ~eLagged
    /\ aSubAt # eSubAt
    /\ Cardinality(Range(AttachLive) \cap Range(SseLive)) >= 2

\* C7, as claimed: for a connection that never lags the snapshot bytes come
\* before any live entry and together they hold every entry that was in the
\* ring at subscribe time and every entry pushed afterwards.
C7_Original ==
    (aPc = "live" /\ ~aLagged) =>
        /\ aOut = Replayed(AttachSnap) \o [i \in 1..Len(AttachLive) |-> LiveRec(AttachLive[i])]
        /\ Range(aRingAtSub) \cup (aSubAt + 1 .. aNext) \subseteq Range(Nums(aOut))

\* C7, amended: for a connection that never lags the snapshot bytes come
\* before any live entry; the snapshot is the ring as it is when the snapshot
\* is read, which is not before the subscribe, and the live entries are the
\* entries pushed after the subscribe, in push order: from the oldest entry of
\* the snapshot on, no entry is missing.
C7_Seam ==
    (aPc = "live" /\ ~aLagged) =>
        /\ aOut = Replayed(aSnap) \o [i \in 1..(aNext - aSubAt) |-> LiveRec(aSubAt + i)]
        /\ aSnapAt >= aSubAt
        /\ aSnap = Run(aSnapAt - Len(aSnap), Len(aSnap))
        /\ aSnap = <<>> => aSnapAt = 0

\* Pushes fall between the subscribe and the snapshot, and after the snapshot;
\* the ring was not empty at the subscribe.
C7_Witness ==
    /\ aPc = "live" /\ ~aLagged
    /\ aRingAtSub # <<>>
    /\ aSnapAt > aSubAt
    /\ aNext > aSnapAt

\* The entries delivered in the replay and again as live entries.
Dups == Range(AttachSnap) \cap Range(AttachLive)

Once(q) == \A i, j \in 1..Len(q) : q[i] = q[j] => i = j

\* C8, as claimed: at most one entry is delivered twice.
C8_Original == Cardinality(Dups) <= 1

\* C8, amended: no entry is delivered more than twice (once in the replay,
\* once live); the entries delivered twice are entries pushed between the
\* subscribe and the snapshot, and there can be more than one of them.
C8_Duplicates ==
    /\ Once(AttachSnap)
    /\ Once(AttachLive)
    /\ Dups \subseteq (aSubAt + 1 .. aSnapAt)

\* Two entries are delivered twice.
C8_Witness == Cardinality(Dups) >= 2

\* C9, as claimed: the stream starts with one resize event, then the snapshot
\* entries, then live entries, and without a lag signal no entry pushed after
\* the snapshot was taken is missing.
C9_NoLoss ==
    (ePc = "live" /\ ~eLagged) =>
        /\ eOut[1].t = "resize"
        /\ SubSeq(eOut, 2, 1 + Len(eSnap)) = [i \in 1..Len(eSnap) |-> LogEv(eSnap[i])]
        /\ (eSnapAt + 1 .. eNext) \subseteq Range(SseLive)

\* C10, as claimed: when spawn returns Ok a connect to the session's socket
\* succeeds.
C10_AttachableOnReturn == spawnRet.res = "Ok" => spawnRet.attachable


\* C11, as claimed: a spawn that returned an error left the session out of the
\* registry, with no supervisor and no listener task; a spawn that returned Ok
\* left it registered and attachable.
C11_AllOrNothing ==
    /\ spawnRet.res = "Err" =>
          /\ Sid \notin sessions
          /\ supPc = "none"
          /\ lsnPc = "none"
    /\ spawnRet.res = "Ok" =>
          /\ Sid \in sessions
          /\ spawnRet.attachable

\* A step in which a call of stop returns.
StopReturns == ret' # ret /\ ret'.op = "stop"

SendInputReturns == ret' # ret /\ ret'.op = "send_input"

C13_RehydratedGet ==
    (/\ srvPc = "serving"
     /\ getRes.id \in Dirs
     /\ IsMeta(diskOrig[getRes.id])
     /\ diskOrig[getRes.id].m.status = Running)
    => /\ getRes.found
       /\ getRes.meta.status = Stopped
       /\ getRes.meta.pid = None
       /\ getRes.meta.updated_at > diskOrig[getRes.id].m.updated_at

\* What restore_sessions leaves on disk, file by file.
RestoredDisk ==
    \A d \in Dirs :
        IF IsMeta(diskOrig[d]) /\ diskOrig[d].m.status = Running
        THEN /\ IsMeta(disk[d])
             /\ disk[d].m = [diskOrig[d].m EXCEPT !.status = Stopped, !.pid = None,
                                                  !.updated_at = disk[d].m.updated_at]
        ELSE disk[d] = diskOrig[d]

RECURSIVE Flat(_)
Flat(q) == IF q = <<>> THEN <<>> ELSE Bytes(Head(q), 1, ChunkLen) \o Flat(Tail(q))

IsPrefix(p, q) == Len(p) <= Len(q) /\ SubSeq(q, 1, Len(p)) = p

C17_Terminates ==
    kFirst # "none" => (kOut = "ended" /\ kIn = "ended")

\* C18, as claimed: once the child has exited and the PTY reader has stopped,
\* a client that is connected eventually reads EOF.
C18_EofOnPtyClose ==
    (child # "alive" /\ supPc # "reading" /\ kCliRd = "open")
        ~> (ClientSeesEof \/ kCliRd # "open")

\* A step in which the receiver of the attach connection, or of the SSE
\* stream, takes a Lagged from the broadcast channel.
AttachTakesLagged ==
    aPc = "live" /\ RecvKind(aNext) = "lagged" /\ aNext' # aNext
SseTakesLagged ==
    ePc = "live" /\ RecvKind(eNext) = "lagged" /\ eNext' # eNext

\* The gap events of the SSE stream.
Gaps(out) == SelectSeq(out, LAMBDA e : e = GapEv)

\* C19: a Lagged ends no observer.  The attach connection writes nothing for
\* it and stays live, its receiver at the oldest entry the channel retains;
\* the SSE stream emits one gap event for it and stays live, its receiver at
\* the oldest retained entry; and a gap event is emitted for nothing else.
C19_LaggedContinues ==
    [][/\ AttachTakesLagged =>
            /\ aPc' = "live"
            /\ aOut' = aOut
            /\ aNext' = pushed - BroadcastCap
       /\ SseTakesLagged =>
            /\ ePc' = "live"
            /\ eOut' = Append(eOut, GapEv)
            /\ eNext' = pushed - BroadcastCap
       /\ Len(Gaps(eOut')) # Len(Gaps(eOut)) => SseTakesLagged]_vars

\* Both observers lagged, the SSE stream twice, and both forwarded the
\* latest entry afterwards.
C19_Witness ==
    /\ aLagged /\ aPc = "live"
    /\ aOut # <<>> /\ aOut[Len(aOut)] = LiveRec(MaxLogPush)
    /\ ePc = "live"
    /\ Len(Gaps(eOut)) = 2
    /\ eOut[Len(eOut)] = LogEv(MaxLogPush)

\* The resident ids whose string has the argument as its first characters.
StartingWith ==
    {id \in rKeys :
        /\ Len(rPrefix) <= IdLen
        /\ \A i \in 1..Len(rPrefix) : IdToString(id)[i] = rPrefix[i]}

\* C20: an argument that parses as a Uuid resolves to that id when it is
\* resident and to not-found when it is not; any other argument resolves to
\* not-found when no resident id starts with it, to the id when one does, and
\* to ambiguous, with the number of matches, when more than one does.
C20_ResolveId ==
    rPc = "done" =>
        IF ParsesAsUuid(rPrefix)
        THEN IF ParseUuid(rPrefix) \in rKeys
             THEN rRes.res = "Ok" /\ rRes.id = ParseUuid(rPrefix)
             ELSE rRes.res = "SessionNotFound"
        ELSE /\ StartingWith = {} => rRes.res = "NoSessionMatching"
             /\ Cardinality(StartingWith) = 1 =>
                    rRes.res = "Ok" /\ rRes.id \in StartingWith
             /\ Cardinality(StartingWith) > 1 =>
                    /\ rRes.res = "SessionsMatch"
                    /\ rRes.n = Cardinality(StartingWith)

\* A prefix of one character that two of three resident ids start with.
C20_Witness ==
    /\ rPc = "done"
    /\ Len(rPrefix) = 1
    /\ Cardinality(rKeys) = 3
    /\ rRes.res = "SessionsMatch" /\ rRes.n = 2

\* A step in which the resize endpoint answers a request.
ResizeReturns ==
    /\ ret'.op \in {"resize", "resize_out_of_bounds"}
    /\ <<ret, qRows, qCols>>' # <<ret, qRows, qCols>>

\* C21: on a Running session a resize request succeeds exactly when rows and
\* cols are both within 1..500; a request that succeeds sets the size, and
\* one that fails leaves it as it was.
C21_ResizeBounds ==
    [][(ResizeReturns /\ ret'.id = Sid /\ Sid \in sessions /\ meta.status = Running)
          => /\ (ret'.res = "Ok") <=> (qRows' \in 1..MaxDim /\ qCols' \in 1..MaxDim)
             /\ ret'.res = "Ok" => size' = <<qRows', qCols'>>
             /\ ret'.res # "Ok" => size' = size]_vars

\* resize(1, 1) succeeded, and resize(1, 501) was then refused.
C21_Witness ==
    /\ meta.status = Running
    /\ ret.op = "resize_out_of_bounds" /\ ret.id = Sid /\ ret.res = "InvalidSize"
    /\ qRows = 1 /\ qCols = MaxDim + 1
    /\ size = <<1, 1>>

\* The permission-skip flag of the tool of the call, and whether the caller's
\* arguments hold it.
SkipFlag == IF jTool = Claude THEN "--dangerously-skip-permissions" ELSE "--yolo"
HasSkipFlag(args) == \E i \in 1..Len(args) : args[i] = SkipFlag

\* C22: with yolo_mode the arguments of the child hold the tool's flag: at
\* index 0, the caller's arguments following unchanged, when the caller's
\* arguments lacked it, and the caller's arguments as they are when they held
\* it; without yolo_mode the arguments are the caller's.
C22_YoloFlag ==
    jPc = "done" =>
        /\ yolo_mode => HasSkipFlag(jOut)
        /\ (yolo_mode /\ ~HasSkipFlag(jArgs)) =>
              /\ Len(jOut) = Len(jArgs) + 1
              /\ jOut[1] = SkipFlag
              /\ \A i \in 1..Len(jArgs) : jOut[i + 1] = jArgs[i]
        /\ (yolo_mode /\ HasSkipFlag(jArgs)) => jOut = jArgs
        /\ ~yolo_mode => jOut = jArgs

\* Codex with yolo_mode: the caller's arguments hold Claude's flag and not
\* Codex's, which is inserted before them.
C22_Witness ==
    /\ jPc = "done" /\ yolo_mode /\ jTool = Codex
    /\ jArgs = <<"--dangerously-skip-permissions", "-v">>
    /\ jOut = <<"--yolo", "--dangerously-skip-permissions", "-v">>

\* C25: after every consumed event the list holds the most recent
\* min(k, MAX_CHAT_MESSAGES) of the k messages pushed so far, in push order.
C25_MessageCap ==
    LET kept == Len(parser.messages)
    IN  /\ kept = Min(parser.pushed, MAX_CHAT_MESSAGES)
        /\ \A i \in 1..kept : parser.messages[i].n = parser.pushed - kept + i

\* An event of three blocks pushed four messages onto a full list.
C25_Witness ==
    /\ cEvent.type = "assistant" /\ Len(cEvent.content.items) = 3
    /\ parser.pushed >= MAX_CHAT_MESSAGES + 4
    /\ Len(parser.messages) = MAX_CHAT_MESSAGES

\* The last message of the parser, when there is one.
HasLast == parser.messages # <<>>
LastMessage == parser.messages[Len(parser.messages)]

\* C26: the state of a snapshot by priority: a status other than Running,
\* then a pending question, then a progress hint under a last event of type
\* progress, then a last message of role user, then a last message of kind
\* thinking, then idle.
C26_StatePriority ==
    /\ cStatus # Running => SnapshotState = <<"stopped", "Session Stopped">>
    /\ cStatus = Running =>
         /\ parser.pending_question.some =>
                SnapshotState = <<"awaiting_input", "Waiting for your answer">>
         /\ ~parser.pending_question.some =>
              IF parser.last_event_type = "progress" /\ parser.progress_hint # None
              THEN SnapshotState = <<"working", parser.progress_hint>>
              ELSE IF HasLast /\ LastMessage.role = "user"
              THEN SnapshotState = <<"thinking", "Claude is thinking">>
              ELSE IF HasLast /\ LastMessage.kind = "thinking"
              THEN SnapshotState = <<"thinking", "Claude is reasoning">>
              ELSE SnapshotState = <<"idle", "Ready">>

\* A session that is not running whose transcript ends in a pending question.
C26_Witness ==
    /\ cStatus = Stopped
    /\ parser.pending_question.some
    /\ SnapshotState[1] = "stopped"

\* What an event holds: a tool_result for a tool_use_id, an AskUserQuestion
\* block with questions, a local-command-stdout that offers options.
Items(e) == IF e.content.form = "array" THEN e.content.items ELSE <<>>
HasToolResult(e, id) ==
    /\ e.type = "user"
    /\ \E i \in 1..Len(Items(e)) :
          Items(e)[i].type = "tool_result" /\ Items(e)[i].tool_use_id = id
Asks(e) ==
    IF e.type # "assistant" THEN {}
    ELSE {Items(e)[i].id : i \in {j \in 1..Len(Items(e)) :
                                     /\ Items(e)[j].type = "tool_use"
                                     /\ Items(e)[j].name = "AskUserQuestion"
                                     /\ Items(e)[j].questions > 0}}
UserTextsOf(e) ==
    IF e.type # "user" THEN {}
    ELSE IF e.content.form = "str" THEN {e.content.str}
    ELSE {Items(e)[i].text : i \in {j \in 1..Len(Items(e)) : Items(e)[j].type = "text"}}
OffersOptions(e) ==
    \E t \in UserTextsOf(e) : t.tags = {StdoutTag} /\ t.inner = OptionsText

\* An AskUserQuestion is pending before the step.
AskPending ==
    parser.pending_question.some /\ parser.pending_question.tool_use_id \in AskIds

C28_WorkingHintFresh ==
    (cStatus = Running /\ SnapshotState[1] = "working") => hintFresh

\* The text of a user event whose content is a string, and what its tags are.
StrText(e) == e.content.str
IsUserStr(e) == e.type = "user" /\ e.content.form = "str"
Silent(t) == CaveatTag \in t.tags \/ CommandTag \in t.tags
StdoutOnly(t) == StdoutTag \in t.tags /\ ~Silent(t)

\* C29: a user text with a caveat or a command-name tag pushes no message
\* and leaves the modes, the pending question and the plan as they were; the
\* stdout "Enabled plan mode" sets both modes to plan, "Disabled plan mode"
\* both to default, and a stdout that is not empty pushes one message, of
\* role system and kind local_command.
C29_LocalCommands ==
    [][IsUserStr(cEvent') =>
         /\ Silent(StrText(cEvent')) =>
               /\ parser'.messages = parser.messages
               /\ parser'.pushed = parser.pushed
               /\ parser'.permission_mode = parser.permission_mode
               /\ parser'.view_mode = parser.view_mode
               /\ parser'.pending_question = parser.pending_question
               /\ parser'.plan = parser.plan
         /\ StdoutOnly(StrText(cEvent')) =>
               /\ parser'.pushed = parser.pushed + 1
               /\ parser'.messages # <<>>
               /\ LastMessage'.role = "system"
               /\ LastMessage'.kind = "local_command"
               /\ LastMessage'.n = parser'.pushed
         /\ StrText(cEvent') = Text({StdoutTag}, "Enabled plan mode") =>
               parser'.permission_mode = "plan" /\ parser'.view_mode = "plan"
         /\ StrText(cEvent') = Text({StdoutTag}, AnsiDisabled) =>
               /\ parser'.permission_mode = "default"
               /\ parser'.view_mode = "default"
               /\ LastMessage'.text = "Disabled plan mode"]_vars

\* The stdout "Enabled plan mode" and then a caveat: both modes are plan and
\* the one message is the stdout's.
C29_Witness ==
    /\ cEvent = Event("user", "", StrContent(Text({CaveatTag}, "Caveat")))
    /\ parser.pushed = 1
    /\ Len(parser.messages) = 1
    /\ parser.messages[1].role = "system"
    /\ parser.messages[1].text = "Enabled plan mode"
    /\ parser.permission_mode = "plan" /\ parser.view_mode = "plan"

\* C30, as claimed: a pending question of a local command is cleared by every
\* later user text that is not empty (one that offers options sets its own).
C30_LocalCmdCleared ==
    [][(/\ parser.pending_question.some
        /\ IsLocalCmdId(parser.pending_question.tool_use_id)
        /\ \E t \in UserTextsOf(cEvent') : Raw(t) # ""
        /\ ~OffersOptions(cEvent'))
          => parser'.pending_question = NoPending]_vars

\* C23: parsing a transcript skips the empty and the malformed lines and goes
\* on: the snapshot of every transcript is the snapshot of the same transcript
\* with the empty and the non-JSON lines removed.
JsonLinesOf(lines) == SelectSeq(lines, LAMBDA l : l.kind = "json")

C23_SkipsBadLines ==
    tPc = "done" =>
        snapshot = ParseSnapshot(transcript.status, transcript.available,
                                 JsonLinesOf(transcript.lines))

\* An empty and a malformed line come before an event, and the snapshot has
\* the message of that event.
C23_Witness ==
    /\ tPc = "done"
    /\ transcript.lines = <<MalformedLine, EmptyLine,
                            JsonLine(Event("user", "", StrContent(Text({}, "hello"))))>>
    /\ Len(snapshot.messages) = 1
    /\ snapshot.messages[1].text = "hello"

\* C24: parse_snapshot never fails, whatever the transcript holds, texts
\* longer than the truncation limit with a multi-byte character at the
\* truncation point included.
C24_NeverPanics == zPc = "done" => ~zOut.panic

\* C38: after any sequence of events view_mode is default, plan or yolo and
\* is the normalisation of permission_mode: plan for plan, yolo for
\* bypassPermissions and acceptEdits, default for anything else.
C38_ViewModeNormalised ==
    /\ parser.view_mode \in {"default", "plan", "yolo"}
    /\ parser.view_mode =
           (CASE parser.permission_mode = "plan" -> "plan"
              [] parser.permission_mode \in {"bypassPermissions", "acceptEdits"}
                     -> "yolo"
              [] OTHER -> "default")

\* A bypassPermissions field has set yolo, and plan mode was entered and
\* left again since: the last event is the ExitPlanMode block.
C38_Witness ==
    /\ cEvent = Event("assistant", "",
                      Array(<<ToolUse("ExitPlanMode", <<"t3">>, 0, TRUE)>>))
    /\ parser.permission_mode = "plan"
    /\ parser.view_mode = "plan"
    /\ \E i \in 1..Len(parser.messages) :
           parser.messages[i].text = "Using EnterPlanMode"

\* C40: the ids msg-<n> given to the messages of events without uuid are
\* pairwise distinct within a snapshot, also after the head of the list was
\* dropped.
Synthesized(m) == m.id.uuid = "msg-"

C40_IdsDistinct ==
    \A i, j \in 1..Len(parser.messages) :
        (i # j /\ Synthesized(parser.messages[i])
               /\ Synthesized(parser.messages[j]))
            => parser.messages[i].id # parser.messages[j].id

\* C32: every text stored in a message or in a plan item is trimmed of
\* whitespace and is at most MAX_TEXT_LEN characters long, with one ellipsis
\* after them when it was truncated; the text of a tool_use message, built
\* from the tool name, included.
Trimmed(str) == str = TrimChars(str)

WithinLimit(str) ==
    \/ Len(str) <= MAX_TEXT_LEN /\ (\A i \in 1..Len(str) : str[i] # Ellipsis)
    \/ /\ Len(str) <= MAX_TEXT_LEN + 1
       /\ str[Len(str)] = Ellipsis
       /\ \A i \in 1..(Len(str) - 1) : str[i] # Ellipsis

C32_TextsCompact ==
    (zPc \in {"done", "named"} /\ ~zOut.panic) =>
        (Trimmed(zOut.s) /\ WithinLimit(zOut.s))

\* C31: the augmentation returns a snapshot that has a pending question as
\* it is, whatever the terminal output; on any other snapshot it changes at
\* most pending_question, and sets it, with tool_use_id "terminal-choice",
\* only when the output has two numbered menu items or more and a line
\* giving a question text.
MenuNums(output) ==
    {output[i].num : i \in {k \in 1..Len(output) : output[k].kind = "menu"}}

C31_AugmentFrame ==
    [][(tPc = "done" /\ tPc' = "augmented") =>
          /\ snapshot.pending_question.some => snapshot' = snapshot
          /\ [snapshot' EXCEPT !.pending_question = NoPending]
                 = [snapshot EXCEPT !.pending_question = NoPending]
          /\ snapshot'.pending_question # snapshot.pending_question =>
                 /\ snapshot'.pending_question = Pending(TerminalChoice)
                 /\ Cardinality(MenuNums(terminal)) >= 2
                 /\ \E i \in 1..Len(terminal) :
                        terminal[i].kind # "blank" /\ terminal[i].q]_vars

\* A snapshot without question was augmented with the prompt of the
\* terminal.
C31_Witness ==
    /\ tPc = "augmented"
    /\ transcript.lines # <<>>
    /\ terminal = <<TermLine("text", 0, TRUE), TermLine("menu", 1, FALSE),
                    TermLine("menu", 2, FALSE)>>
    /\ snapshot.pending_question = Pending(TerminalChoice)
    /\ Len(snapshot.messages) = 1

\* C39: in every snapshot of a Running session handed to a client, one that
\* went through the terminal augmentation included, the state is
\* awaiting_input exactly when a pending question is present.
C39_AwaitingIffPending ==
    (tPc \in {"done", "augmented"} /\ transcript.status = Running) =>
        (snapshot.state = "awaiting_input" <=> snapshot.pending_question.some)

\* C37: stop never sends SIGTERM to a pid whose process the supervisor has
\* reaped: the signal does not go out between the return of child.wait()
\* and the reaper's update of the metadata.
C37_NoSigtermAfterReap == "reaped" \notin sigterms

C36_NoInputAfterStop ==
    [][meta.status # Running => kSent' = kSent]_vars

\* C34: the registry lock is held for the lookup or the insert only: no
\* operation holds it while it waits on a channel send or does file I/O.
C34_RegistryLockBrief ==
    \A p \in Callers \cup {"reader"} :
        HoldsRegistry(p) => ~(WaitsOnSend(p) \/ DoesFileIo(p))

\* C35: no deadlock under back-pressure: a send_input that waits for room
\* in the full input channel, its read guard held, does not keep the read
\* loop from the session's write lock, so that send_input, the write task
\* and the read loop never wait on one another for ever.
C35_NoDeadlock ==
    ~(/\ \E c \in Callers : callPc[c] = "sending"
      /\ rdPc = "locking"
      /\ ~ENABLED NextPressure)


====
